---------------------------- MODULE Spec2Model ----------------------------
(***************************************************************************)
(* A model of the financial-dashboard ETL pipeline (main.py, src/ingest.py,*)
(* src/transform.py, src/analyze.py).                                      *)
(*                                                                         *)
(* The ledger (a pandas DataFrame) is a sequence of rows; a row is a       *)
(* record holding the canonical Transaction columns and the columns the    *)
(* later stages add.  Every stage of the code takes a DataFrame and        *)
(* returns a new one, so every stage is an operator on ledgers, and the    *)
(* action of a stage replaces the ledger by the operator's result.         *)
(*                                                                         *)
(* Numbers.  Amounts are exact decimal numbers, written as integers (one   *)
(* unit is the smallest currency step).  The mean and the standard         *)
(* deviation are rationals and square roots of rationals: they are kept as *)
(* integer numerators and denominators and compared by cross               *)
(* multiplication, so that every comparison the code makes is decided      *)
(* exactly.  The rounding error of the binary floating point numbers that  *)
(* pandas computes with is modelled where find_recurring compares the      *)
(* difference of two amounts with its tolerance, and nowhere else.         *)
(*                                                                         *)
(* Text.  A description, a keyword and a bank_category are sequences of    *)
(* one-character strings, so that trimming, lower-casing and substring     *)
(* search are computed.  Category names are only compared and are strings. *)
(*                                                                         *)
(* Dates are day numbers; day 0 is 2024-01-01.                             *)
(***************************************************************************)
EXTENDS Integers, Sequences, FiniteSets, TLC

VARIABLES
    files,             \* the CSV files of the input directory, as the directory lists them
    ledger,            \* the DataFrame the pipeline currently holds
    prev,              \* the DataFrame the last stage received
    stage,             \* the position of the run
    std_threshold,     \* --std-threshold, in tenths
    starting_balance,  \* --balance
    categories,        \* the rule set of categories.yaml, in file order
    result,            \* the views analyze has computed, by their key
    is_dir,            \* --input is a directory
    config_exists,     \* the categories.yaml path exists
    start,             \* --start, a year_month or absent
    end,               \* --end, a year_month or absent
    exit_code,         \* what main has returned, if it has
    steps,             \* the steps of main that have completed, in order
    output,            \* the files written to the output directory
    warnings,          \* the files load_directory has skipped, in order
    formats,           \* what _detect_format has returned for each file, in order
    curr_spend,        \* the CURR_SPEND data of the dashboard, once it is written
    message,           \* the error main has printed, "" if none
    budgets            \* the budgets of categories.yaml, in file order

\* The variables that only main and load_directory read or write.
run ==
    <<is_dir, config_exists, start, end, exit_code, steps, output, warnings, formats,
      curr_spend, message>>

vars ==
    <<files, ledger, prev, stage, std_threshold, starting_balance, categories,
      result, run, budgets>>

(***************************************************************************)
(* Bounds of the model.                                                    *)
(***************************************************************************)
MaxRows == 4
MaxDay == 4
MaxAmount == 3

(***************************************************************************)
(* Generic helpers.                                                        *)
(***************************************************************************)
Abs(x) == IF x < 0 THEN -x ELSE x

SeqsUpTo(S, n) == UNION {[1..k -> S] : k \in 0..n}

RECURSIVE SumOver(_, _)
SumOver(f, S) ==
    IF S = {} THEN 0
    ELSE LET x == CHOOSE y \in S : TRUE IN f[x] + SumOver(f, S \ {x})

Permutations1(n) == {p \in [1..n -> 1..n] : \A i, j \in 1..n : i # j => p[i] # p[j]}

NoView == <<>>

\* The views before analyze has computed any.
NoViews ==
    [monthly_by_category |-> NoView, monthly_summary |-> NoView,
     anomalies |-> NoView, recurring |-> NoView, top_merchants |-> NoView,
     spending_by_dow |-> NoView, mom_comparison |-> NoView,
     budget_status |-> NoView]

(***************************************************************************)
(* The columns of a row.  Columns a stage has not added yet hold the       *)
(* values below.                                                           *)
(***************************************************************************)
Null == <<>>

\* A date is a day number (a Timestamp), NaT (an empty cell parses to it), or
\* Unparseable: a text that no format and no fallback of pd.to_datetime
\* parses.
NaT == -1
Unparseable == -2

\* A component run on its own, outside main: the variables of main hold
\* the defaults of parse_args and nothing has been returned or written.
Standalone ==
    /\ is_dir = TRUE
    /\ config_exists = TRUE
    /\ start = Null
    /\ end = Null
    /\ exit_code = Null
    /\ steps = <<>>
    /\ output = {}
    /\ warnings = <<>>
    /\ formats = <<>>
    /\ curr_spend = Null
    /\ message = ""
    /\ budgets = <<>>

RawRow(date, description, amount, bank_category) ==
    [date |-> date, description |-> description, amount |-> amount,
     bank_category |-> bank_category, source_file |-> "a.csv",
     category |-> "", merchant |-> <<>>, day_of_week |-> 0, day_name |-> "",
     month |-> 0, month_name |-> "", year |-> 0, year_month |-> 0,
     is_weekend |-> FALSE, is_expense |-> FALSE, abs_amount |-> 0,
     is_duplicate |-> FALSE,
     is_anomaly |-> FALSE, anomaly_zscore |-> Null, running_balance |-> Null]

\* The category names of the model in the order Python compares strings.
SortedCategoryNames ==
    <<"Bills", "Entertainment", "Food", "Health", "Income", "Other", "Rent",
      "Shopping", "Transfer", "income">>

\* The position of a category name in that order.
CategoryRank(category) ==
    CHOOSE k \in 1..Len(SortedCategoryNames) : SortedCategoryNames[k] = category

\* The calendar: the year and month of a day number (day 0 is 2024-01-01),
\* as the integer year * 100 + month, which orders as the string "YYYY-MM".
IsLeap(y) == (y % 4 = 0 /\ y % 100 # 0) \/ y % 400 = 0

DaysInMonth(y, m) ==
    IF m = 2 THEN (IF IsLeap(y) THEN 29 ELSE 28)
    ELSE IF m \in {4, 6, 9, 11} THEN 30 ELSE 31

RECURSIVE YearMonthFrom(_, _, _)
YearMonthFrom(d, y, m) ==
    IF d < DaysInMonth(y, m) THEN y * 100 + m
    ELSE IF m = 12 THEN YearMonthFrom(d - DaysInMonth(y, m), y + 1, 1)
    ELSE YearMonthFrom(d - DaysInMonth(y, m), y, m + 1)

YearMonth(d) == YearMonthFrom(d, 2024, 1)

\* dt.dayofweek: Monday is 0, and 2024-01-01 is a Monday.
DayOfWeek(d) == d % 7

DayNames ==
    <<"Monday", "Tuesday", "Wednesday", "Thursday", "Friday", "Saturday", "Sunday">>

MonthNames ==
    <<"January", "February", "March", "April", "May", "June", "July", "August",
      "September", "October", "November", "December">>

\* The columns add_derived_fields computes from the date and the amount.
\* A weekend of Sunday alone.
IsSunday(day_of_week) == day_of_week >= 6

\* df["day_of_week"] >= 5
IsWeekend(day_of_week) == day_of_week >= 5

WithDerivedFields(row) ==
    [row EXCEPT
        !.day_of_week = DayOfWeek(row.date),
        !.day_name = DayNames[DayOfWeek(row.date) + 1],
        !.month = YearMonth(row.date) % 100,
        !.month_name = MonthNames[YearMonth(row.date) % 100],
        !.year = YearMonth(row.date) \div 100,
        !.year_month = YearMonth(row.date),
        !.is_weekend = IsWeekend(DayOfWeek(row.date)),
        !.is_expense = row.amount < 0,
        !.abs_amount = Abs(row.amount)]

\* A row as transform leaves it, with the category, the merchant and the
\* duplicate flag given: the derived columns are computed as
\* add_derived_fields computes them.
EnrichedRow(date, description, amount, bank_category, category, merchant, is_duplicate) ==
    WithDerivedFields([RawRow(date, description, amount, bank_category) EXCEPT
                          !.category = category,
                          !.merchant = merchant,
                          !.is_duplicate = is_duplicate])

(***************************************************************************)
(* df.sort_values("date").reset_index(drop=True).  pandas sorts with       *)
(* numpy's default quicksort, which is not stable: rows of the same date   *)
(* may come out in any order.  SortValuesDate is the set of results.       *)
(***************************************************************************)
IsSortedByDate(df) == \A i \in 1..Len(df) - 1 : df[i].date <= df[i + 1].date

SortValuesDate(df) ==
    {s \in {[i \in 1..Len(df) |-> df[p[i]]] : p \in Permutations1(Len(df))} :
        IsSortedByDate(s)}

(***************************************************************************)
(* transform.flag_duplicates.                                              *)
(***************************************************************************)
WindowDays == 2

\* The mask of one iteration: the rows other than i with the amount and the
\* description of row i, dated within window_days of it.
DupMaskStrict(df, i, window_days) ==
    {j \in 1..Len(df) :
        /\ j # i
        /\ df[j].amount = df[i].amount
        /\ df[j].description = df[i].description
        /\ Abs(df[j].date - df[i].date) < window_days}

DupMask(df, i, window_days) ==
    {j \in 1..Len(df) :
        /\ j # i
        /\ df[j].amount = df[i].amount
        /\ df[j].description = df[i].description
        /\ Abs(df[j].date - df[i].date) <= window_days}

\* A loop whose mask leaves out the rows that are already flagged.
RECURSIVE DupLoopUnflagged(_, _, _, _)
DupLoopUnflagged(df, flags, i, window_days) ==
    IF i > Len(df) THEN flags
    ELSE IF flags[i] THEN DupLoopUnflagged(df, flags, i + 1, window_days)
    ELSE LET dup_indices == {j \in DupMask(df, i, window_days) : ~flags[j]} IN
         IF dup_indices # {}
         THEN DupLoopUnflagged(df, [k \in 1..Len(df) |-> flags[k] \/ k = i \/ k \in dup_indices],
                               i + 1, window_days)
         ELSE DupLoopUnflagged(df, flags, i + 1, window_days)

\* The loop over df.iterrows(): flags is the is_duplicate column so far.
RECURSIVE DupLoop(_, _, _, _)
DupLoop(df, flags, i, window_days) ==
    IF i > Len(df) THEN flags
    ELSE IF flags[i] THEN DupLoop(df, flags, i + 1, window_days)
    ELSE LET dup_indices == DupMask(df, i, window_days) IN
         IF dup_indices # {}
         THEN DupLoop(df, [k \in 1..Len(df) |-> flags[k] \/ k = i \/ k \in dup_indices],
                      i + 1, window_days)
         ELSE DupLoop(df, flags, i + 1, window_days)

\* flag_duplicates on a ledger that sort_values has already ordered.
flag_duplicates_sorted(df, window_days) ==
    LET flags == DupLoop(df, [k \in 1..Len(df) |-> FALSE], 1, window_days)
    IN [k \in 1..Len(df) |-> [df[k] EXCEPT !.is_duplicate = flags[k]]]

flag_duplicates(df, window_days) ==
    {flag_duplicates_sorted(s, window_days) : s \in SortValuesDate(df)}

FlagDuplicates ==
    /\ stage = "derived"
    /\ \E out \in flag_duplicates(ledger, WindowDays) :
          /\ ledger' = out
          /\ prev' = ledger
    /\ stage' = "transformed"
    /\ steps' = Append(steps, "transform")
    /\ UNCHANGED <<files, std_threshold, starting_balance, categories, result, budgets,
                   is_dir, config_exists, start, end, exit_code, output, warnings, formats, curr_spend, message>>

(***************************************************************************)
(* The duplicate detector on its own: any ledger of up to MaxRows rows,    *)
(* sorted by date as load_directory leaves it.                             *)
(***************************************************************************)
DupRows ==
    {RawRow(d, x[1], x[2], <<>>) :
        d \in 0..MaxDay,
        x \in {<<<<"a">>, -5>>, <<<<"a">>, -7>>, <<<<"b">>, -5>>}}

InitDup ==
    /\ ledger \in {s \in SeqsUpTo(DupRows, MaxRows) : IsSortedByDate(s)}
    /\ files = <<>>
    /\ prev = <<>>
    /\ stage = "derived"
    /\ std_threshold = 20
    /\ starting_balance = 0
    /\ categories = <<>>
    /\ result = NoViews
    /\ Standalone

NextDup == FlagDuplicates

SpecDup == InitDup /\ [][NextDup]_vars

\* Row j is a partner of row i: another row, same amount and description,
\* dated at most window_days away.
Partner(df, i, j, window_days) ==
    /\ i # j
    /\ df[i].amount = df[j].amount
    /\ df[i].description = df[j].description
    /\ df[i].date - df[j].date <= window_days
    /\ df[j].date - df[i].date <= window_days

\* C1: after flag_duplicates a row is flagged is_duplicate if and only if
\* some other row has the same amount and description and a date at most
\* window_days (2, inclusive) away; so the flag is symmetric and a row with
\* no partner is never flagged.
C1_DuplicateIffPartner ==
    stage = "transformed" =>
        \A i \in 1..Len(ledger) :
            ledger[i].is_duplicate <=>
                \E j \in 1..Len(ledger) : Partner(ledger, i, j, WindowDays)

\* Rows a, b, c of the ledger form a chain: same amount and description, a
\* and b within the window, b and c within the window, a and c further apart.
IsChain(df, a, b, c, window_days) ==
    /\ Partner(df, a, b, window_days)
    /\ Partner(df, b, c, window_days)
    /\ a # c
    /\ df[a].amount = df[c].amount
    /\ df[a].description = df[c].description
    /\ Abs(df[a].date - df[c].date) > window_days

\* C24: after flag_duplicates the three rows of every chain A, B, C (A and
\* B within the window, B and C within the window, A and C further apart,
\* as on days 0, 2, 4 with window 2) are all flagged is_duplicate.
C24_ChainAllFlagged ==
    stage = "transformed" =>
        \A a, b, c \in 1..Len(ledger) :
            IsChain(ledger, a, b, c, WindowDays) =>
                /\ ledger[a].is_duplicate
                /\ ledger[b].is_duplicate
                /\ ledger[c].is_duplicate

\* The rows of days 0, 2, 4 are flagged, the row of another description
\* between them is not.
C24_Witness ==
    /\ stage = "transformed"
    /\ Len(ledger) = 4
    /\ IsChain(ledger, 1, 2, 4, WindowDays)
    /\ ledger[1].date = 0 /\ ledger[2].date = 2 /\ ledger[4].date = 4
    /\ ledger[3].description # ledger[1].description
    /\ ledger[1].is_duplicate /\ ledger[2].is_duplicate /\ ledger[4].is_duplicate
    /\ ~ledger[3].is_duplicate

\* A chain of three rows two days apart each: the second row is already
\* flagged when the loop reaches it and is skipped, and all three end flagged.
C1_Witness ==
    /\ stage = "transformed"
    /\ Len(ledger) = 3
    /\ ledger[2].date - ledger[1].date = WindowDays
    /\ ledger[3].date - ledger[2].date = WindowDays
    /\ \A i \in 1..3 : ledger[i].is_duplicate
    /\ \A i \in 1..3 : ledger[i].amount = ledger[1].amount
                       /\ ledger[i].description = ledger[1].description

(***************************************************************************)
(* analyze.flag_anomalies.                                                 *)
(*                                                                         *)
(* For a group of n values with sum S the code computes                    *)
(*     mean = S / n,   std = sqrt(sum (x - mean)^2 / (n - ddof)),          *)
(*     z    = (x - mean) / std.                                            *)
(* With DevN = n * x - S = n * (x - mean) and SqDevN = sum DevN^2 the      *)
(* same numbers are  std^2 = SqDevN / (n^2 * (n - ddof))  and              *)
(*     z = sign(DevN) * sqrt(DevN^2 * (n - ddof) / SqDevN),                *)
(* so z is kept as the record [dev, num, den]: the sign of dev and the     *)
(* square num / den.                                                       *)
(***************************************************************************)
RECURSIVE Gcd(_, _)
Gcd(a, b) == IF b = 0 THEN a ELSE Gcd(b, a % b)

ExcludeFromAnomaly == {"Transfer"}
MinGroupSize == 3

\* df[df["is_expense"] & ~df["is_duplicate"]]
AnomalyFilterKeepsDuplicates(r) == r.is_expense

AnomalyFilter(r) == r.is_expense /\ ~r.is_duplicate

\* The rows of one group of the groupby("category").
AnomalyGroup(df, category) ==
    {i \in 1..Len(df) : AnomalyFilter(df[i]) /\ df[i].category = category}

GroupSum(df, group) == SumOver([i \in group |-> df[i].abs_amount], group)

\* n * (x - mean)
DevN(df, group, i) == Cardinality(group) * df[i].abs_amount - GroupSum(df, group)

\* n^2 * sum (x - mean)^2
SqDevN(df, group) ==
    SumOver([i \in group |-> DevN(df, group, i) * DevN(df, group, i)], group)

\* Series.std() divides the sum of squares by n - ddof with pandas' default
\* ddof = 1 (the sample standard deviation).
StdDivisorPopulation(n) == n

StdDivisor(n) == n - 1

\* std == 0
StdIsZero(df, group) == SqDevN(df, group) = 0

\* len(group) < 3
GroupTooSmallBelowTwo(group) == Cardinality(group) < 2

GroupTooSmall(group) == Cardinality(group) < MinGroupSize

\* The groups the loop does not `continue` past.
Scored(df, category) ==
    LET group == AnomalyGroup(df, category) IN
    /\ category \notin ExcludeFromAnomaly
    /\ ~GroupTooSmall(group)
    /\ ~StdIsZero(df, group)

\* z = (x - mean) / std, for a row of a scored group.
ZScore(df, group, i) ==
    LET dev == DevN(df, group, i)
        num == dev * dev * StdDivisor(Cardinality(group))
        den == SqDevN(df, group)
        g == Gcd(num, den)
    IN [dev |-> dev, num |-> num \div g, den |-> den \div g]

\* z > std_threshold, the threshold in tenths.
ExceedsOrEquals(z, tenths) ==
    IF tenths >= 0
    THEN z.dev > 0 /\ 100 * z.num >= tenths * tenths * z.den
    ELSE z.dev >= 0 \/ 100 * z.num <= tenths * tenths * z.den

Exceeds(z, tenths) ==
    IF tenths >= 0
    THEN z.dev > 0 /\ 100 * z.num > tenths * tenths * z.den
    ELSE z.dev >= 0 \/ 100 * z.num < tenths * tenths * z.den

\* round(float(z), 2), in hundredths: the integer nearest to 100 * z, the
\* even one of the two when 100 * z lies half way (Python's round).
RoundHundredths(z) ==
    LET \* the least m with 100 * |z| <= m + 1/2
        m == CHOOSE k \in 0..(100 * (z.num + z.den)) :
                 /\ 40000 * z.num <= (2 * k + 1) * (2 * k + 1) * z.den
                 /\ k > 0 => 40000 * z.num > (2 * k - 1) * (2 * k - 1) * z.den
        tie == 40000 * z.num = (2 * m + 1) * (2 * m + 1) * z.den
        magnitude == IF tie /\ m % 2 = 1 THEN m + 1 ELSE m
    IN IF z.dev < 0 THEN -magnitude ELSE magnitude

flag_anomalies(df, threshold) ==
    [i \in 1..Len(df) |->
        LET group == AnomalyGroup(df, df[i].category) IN
        IF AnomalyFilter(df[i]) /\ Scored(df, df[i].category)
        THEN [df[i] EXCEPT
                 !.is_anomaly = Exceeds(ZScore(df, group, i), threshold),
                 !.anomaly_zscore = <<RoundHundredths(ZScore(df, group, i))>>]
        ELSE [df[i] EXCEPT !.is_anomaly = FALSE, !.anomaly_zscore = Null]]

FlagAnomalies ==
    /\ stage = "filtered"
    /\ ledger' = flag_anomalies(ledger, std_threshold)
    /\ prev' = ledger
    /\ stage' = "anomalies"
    /\ UNCHANGED <<files, std_threshold, starting_balance, categories, result, run, budgets>>

(***************************************************************************)
(* The anomaly detector on its own.  Its input is a transformed ledger:    *)
(* any ledger of up to MaxRows rows over a small set of rows, and the      *)
(* ledgers of the boundary example (a category of mean 100 and standard    *)
(* deviation 10 holding a row of 121, or of 119).                          *)
(***************************************************************************)
AnomRow(category, amount, is_duplicate) ==
    EnrichedRow(0, <<"a">>, amount, <<>>, category, <<"A">>, is_duplicate)

AnomRows ==
    {AnomRow("Food", -a, FALSE) : a \in 1..MaxAmount}
        \cup {AnomRow("Food", -MaxAmount, TRUE),
              AnomRow("Food", 1, FALSE),
              AnomRow("Transfer", -MaxAmount, FALSE),
              AnomRow("Rent", -1, FALSE)}

LedgerOf(category, amounts) ==
    [i \in 1..Len(amounts) |-> AnomRow(category, amounts[i], FALSE)]

Boundary121 == LedgerOf("Food", <<-121, -90, -93, -97, -99, -100, -100>>)
Boundary119 == LedgerOf("Food", <<-119, -85, -97, -98, -101, -100, -100>>)

InitAnom ==
    /\ \/ /\ ledger \in SeqsUpTo(AnomRows, MaxRows)
          /\ std_threshold \in {10, 20}
       \/ /\ ledger \in {Boundary121, Boundary119}
          /\ std_threshold = 20
    /\ files = <<>>
    /\ prev = <<>>
    /\ stage = "filtered"
    /\ starting_balance = 0
    /\ categories = <<>>
    /\ result = NoViews
    /\ Standalone

NextAnom == FlagAnomalies

SpecAnom == InitAnom /\ [][NextAnom]_vars

(***************************************************************************)
(* What the claims about flag_anomalies speak of, stated on the input      *)
(* ledger (prev) and the output ledger (ledger) of the stage.              *)
(***************************************************************************)
\* The qualifying rows of a category: expenses that are not flagged duplicate.
Qualifying(df, category) ==
    {i \in 1..Len(df) :
        df[i].amount < 0 /\ ~df[i].is_duplicate /\ df[i].category = category}

QualSum(df, category) ==
    SumOver([i \in Qualifying(df, category) |-> Abs(df[i].amount)],
            Qualifying(df, category))

\* n * (|amount| - mean) of row i within its category
QualDev(df, i) ==
    Cardinality(Qualifying(df, df[i].category)) * Abs(df[i].amount)
        - QualSum(df, df[i].category)

\* n^2 * (the sum of the squared deviations from the mean)
QualSqDev(df, category) ==
    SumOver([i \in Qualifying(df, category) |-> QualDev(df, i) * QualDev(df, i)],
            Qualifying(df, category))

AllEqual(df, category) ==
    \A i, j \in Qualifying(df, category) : df[i].amount = df[j].amount

\* The rows the contract says are scored.
ShouldBeScored(df, i) ==
    /\ i \in Qualifying(df, df[i].category)
    /\ df[i].category # "Transfer"
    /\ Cardinality(Qualifying(df, df[i].category)) >= 3
    /\ ~AllEqual(df, df[i].category)

\* k hundredths is sign(dev) * sqrt(num / den) rounded to two decimals.
IsRoundingOf(k, dev, num, den) ==
    LET g == Gcd(num, den)
        a == num \div g
        b == den \div g
        m == Abs(k)
    IN /\ (dev > 0 => k >= 0) /\ (dev < 0 => k <= 0)
       /\ 40000 * a <= (2 * m + 1) * (2 * m + 1) * b
       /\ m > 0 => 40000 * a >= (2 * m - 1) * (2 * m - 1) * b

\* The z-score of row i with the standard deviation taken with divisor
\* n - ddof, as the square zsq.num / zsq.den and the sign of dev.
ZOf(df, i, ddof) ==
    [dev |-> QualDev(df, i),
     num |-> QualDev(df, i) * QualDev(df, i)
                 * (Cardinality(Qualifying(df, df[i].category)) - ddof),
     den |-> QualSqDev(df, df[i].category)]

StoredZIs(df, out, ddof) ==
    \A i \in 1..Len(out) :
        out[i].anomaly_zscore # Null =>
            IsRoundingOf(out[i].anomaly_zscore[1],
                         ZOf(df, i, ddof).dev, ZOf(df, i, ddof).num, ZOf(df, i, ddof).den)

\* C2 as stated: the z-score of every scored row is (abs_amount - mean)
\* divided by the POPULATION standard deviation (divisor n) of its group.
C2_PopulationStd ==
    stage = "anomalies" => StoredZIs(prev, ledger, 0)

\* C2 amended: the z-score of every scored row is (abs_amount - mean) divided
\* by the SAMPLE standard deviation (divisor n - 1) of the abs_amount of the
\* qualifying rows (expense, not duplicate-flagged) of its category.
C2_SampleStd ==
    stage = "anomalies" => StoredZIs(prev, ledger, 1)

\* A scored row whose stored z-score is no rounding of the population z.
C2_Witness ==
    /\ stage = "anomalies"
    /\ \E i \in 1..Len(ledger) :
          /\ ledger[i].anomaly_zscore # Null
          /\ ~IsRoundingOf(ledger[i].anomaly_zscore[1],
                           ZOf(prev, i, 0).dev, ZOf(prev, i, 0).num, ZOf(prev, i, 0).den)

\* z > threshold / 10 for the z of row i (sample standard deviation).
ZAbove(df, i, tenths) ==
    LET z == ZOf(df, i, 1)
        g == Gcd(z.num, z.den)
    IN IF tenths >= 0
       THEN z.dev > 0 /\ 100 * (z.num \div g) > tenths * tenths * (z.den \div g)
       ELSE z.dev >= 0 \/ 100 * (z.num \div g) < tenths * tenths * (z.den \div g)

\* The category of row i has mean 100 and standard deviation 10.
Mean100Std10(df, i) ==
    LET n == Cardinality(Qualifying(df, df[i].category)) IN
    /\ QualSum(df, df[i].category) = 100 * n
    /\ QualSqDev(df, df[i].category) = 100 * n * n * (n - 1)

\* C3: every scored row has its z-score stored, rounded to two decimals,
\* flagged or not; is_anomaly is true exactly when z > threshold (strict,
\* one-sided); with mean 100, std 10 and threshold 2.0 a row of 121 is
\* flagged and a row of 119 is not; a row at or below its category's mean is
\* never flagged when the threshold is not negative.
C3_FlagIffAboveThreshold ==
    stage = "anomalies" =>
        \A i \in 1..Len(ledger) :
            /\ ShouldBeScored(prev, i) =>
                  /\ ledger[i].anomaly_zscore # Null
                  /\ IsRoundingOf(ledger[i].anomaly_zscore[1], ZOf(prev, i, 1).dev,
                                  ZOf(prev, i, 1).num, ZOf(prev, i, 1).den)
                  /\ ledger[i].is_anomaly <=> ZAbove(prev, i, std_threshold)
            /\ ~ShouldBeScored(prev, i) => ~ledger[i].is_anomaly
            /\ (std_threshold >= 0 /\ QualDev(prev, i) <= 0) => ~ledger[i].is_anomaly
            /\ (ShouldBeScored(prev, i) /\ Mean100Std10(prev, i) /\ std_threshold = 20) =>
                  /\ prev[i].amount = -121 => ledger[i].is_anomaly
                  /\ prev[i].amount = -119 => ~ledger[i].is_anomaly

\* The boundary example has run: the row of 121 is flagged with z = 2.10.
C3_Witness ==
    /\ stage = "anomalies"
    /\ std_threshold = 20
    /\ \E i \in 1..Len(ledger) :
          /\ Mean100Std10(prev, i)
          /\ ledger[i].amount = -121
          /\ ledger[i].is_anomaly
          /\ ledger[i].anomaly_zscore = <<210>>
    /\ \E i \in 1..Len(ledger) :
          ~ledger[i].is_anomaly /\ ledger[i].anomaly_zscore # Null

Excluded(r) == r.category = "Transfer" \/ r.is_duplicate \/ r.amount >= 0

NotExcluded(r) == ~Excluded(r)

\* C5: a Transfer row, a duplicate-flagged row and a row that is no expense
\* are never scored or flagged, and they contribute nothing to the statistics
\* of any category: the other rows get what they get with those rows absent.
C5_ExcludedRowsIgnored ==
    stage = "anomalies" =>
        /\ \A i \in 1..Len(ledger) :
              Excluded(prev[i]) =>
                  ~ledger[i].is_anomaly /\ ledger[i].anomaly_zscore = Null
        /\ SelectSeq(ledger, NotExcluded)
              = flag_anomalies(SelectSeq(prev, NotExcluded), std_threshold)

\* A scored category that also holds a duplicate-flagged row and a row that
\* is no expense, next to a Transfer row.
C5_Witness ==
    /\ stage = "anomalies"
    /\ \E i, j \in 1..Len(ledger) :
          /\ ledger[i].anomaly_zscore # Null
          /\ ledger[j].category = ledger[i].category
          /\ ledger[j].is_duplicate
          /\ ledger[j].anomaly_zscore = Null

(***************************************************************************)
(* Text: str.lower(), str.strip(), and `kw in s`.                          *)
(***************************************************************************)
UpperLetters ==
    <<"A", "B", "C", "D", "E", "F", "G", "H", "I", "J", "K", "L", "M",
      "N", "O", "P", "Q", "R", "S", "T", "U", "V", "W", "X", "Y", "Z">>

LowerLetters ==
    <<"a", "b", "c", "d", "e", "f", "g", "h", "i", "j", "k", "l", "m",
      "n", "o", "p", "q", "r", "s", "t", "u", "v", "w", "x", "y", "z">>

LowerChar(c) ==
    IF \E i \in 1..Len(UpperLetters) : UpperLetters[i] = c
    THEN LowerLetters[CHOOSE i \in 1..Len(UpperLetters) : UpperLetters[i] = c]
    ELSE c

Lower(s) == [i \in 1..Len(s) |-> LowerChar(s[i])]

Whitespace == {" ", "\t", "\n"}

RECURSIVE LStrip(_)
LStrip(s) == IF s # <<>> /\ Head(s) \in Whitespace THEN LStrip(Tail(s)) ELSE s

RECURSIVE RStrip(_)
RStrip(s) ==
    IF s # <<>> /\ s[Len(s)] \in Whitespace THEN RStrip(SubSeq(s, 1, Len(s) - 1)) ELSE s

Strip(s) == RStrip(LStrip(s))

\* kw in s
Contains(s, kw) ==
    \E k \in 0..(Len(s) - Len(kw)) : \A i \in 1..Len(kw) : s[k + i] = kw[i]

(***************************************************************************)
(* transform._categorize_single and transform.categorize.  The rule set is *)
(* the mapping of categories.yaml in file order: a sequence of             *)
(* [name, keywords].                                                       *)
(***************************************************************************)
\* The loops over categories.items() and over the keywords, from the c-th
\* category on.
RECURSIVE CategorizeFrom(_, _, _)
CategorizeFrom(desc_lower, cats, c) ==
    IF c > Len(cats) THEN "Other"
    ELSE IF \E k \in 1..Len(cats[c].keywords) :
                Contains(desc_lower, Lower(cats[c].keywords[k]))
         THEN cats[c].name
         ELSE CategorizeFrom(desc_lower, cats, c + 1)

\* A categorizer that returns the last matching category, not the first.
RECURSIVE CategorizeLastFrom(_, _, _)
CategorizeLastFrom(desc_lower, cats, c) ==
    IF c < 1 THEN "Other"
    ELSE IF \E k \in 1..Len(cats[c].keywords) :
                Contains(desc_lower, Lower(cats[c].keywords[k]))
         THEN cats[c].name
         ELSE CategorizeLastFrom(desc_lower, cats, c - 1)

categorize_single_last(description, cats) ==
    CategorizeLastFrom(Lower(description), cats, Len(cats))

categorize_single(description, cats) == CategorizeFrom(Lower(description), cats, 1)

CashAppTransferTypes ==
    {<<"w", "i", "t", "h", "d", "r", "a", "w", "a", "l">>,
     <<"d", "e", "p", "o", "s", "i", "t", "s">>}

\* mask = df["bank_category"].str.strip().str.lower().isin(...)
TransferMaskNoTrim(r) == Lower(r.bank_category) \in CashAppTransferTypes

TransferMask(r) == Lower(Strip(r.bank_category)) \in CashAppTransferTypes

categorize(df, cats) ==
    [i \in 1..Len(df) |->
        [df[i] EXCEPT !.category =
            IF TransferMask(df[i]) THEN "Transfer"
            ELSE categorize_single(df[i].description, cats)]]

\* A loader that takes the rule file for granted.
CategoriesFileAssumed == TRUE

\* path.exists() in _load_categories
CategoriesFileFound == config_exists

\* The first stage of transform; main ends the run when _load_categories
\* raises FileNotFoundError.
Categorize ==
    /\ stage = "ingested"
    /\ prev' = ledger
    /\ IF CategoriesFileFound
       THEN /\ ledger' = categorize(ledger, categories)
            /\ stage' = "categorized"
            /\ UNCHANGED <<exit_code, message>>
       ELSE /\ ledger' = ledger
            /\ stage' = "failed"
            /\ exit_code' = <<1>>
            /\ message' = "Categories config not found"
    /\ UNCHANGED <<files, std_threshold, starting_balance, categories, result, budgets,
                   is_dir, config_exists, start, end, steps, output, warnings, formats, curr_spend>>

(***************************************************************************)
(* ingest._parse_amount.  A cell of a CSV read with dtype=str is a text or *)
(* NaN (an empty cell).  The outcome of a parse is a record: status "ok"   *)
(* with the value in hundredths, "nan", or "error" (float() raised         *)
(* ValueError).  Texts with more than two digits after the point have no   *)
(* value in hundredths and are not among the inputs.                       *)
(***************************************************************************)
NaN == <<"NaN">>

Digits == <<"0", "1", "2", "3", "4", "5", "6", "7", "8", "9">>

IsDigit(c) == \E i \in 1..Len(Digits) : Digits[i] = c

DigitValue(c) == (CHOOSE i \in 1..Len(Digits) : Digits[i] = c) - 1

RECURSIVE NatOf(_)
NatOf(s) == IF s = <<>> THEN 0 ELSE 10 * NatOf(SubSeq(s, 1, Len(s) - 1)) + DigitValue(s[Len(s)])

\* s.replace(c, "") for every c of chars
RECURSIVE RemoveChars(_, _)
RemoveChars(s, chars) ==
    IF s = <<>> THEN <<>>
    ELSE IF Head(s) \in chars THEN RemoveChars(Tail(s), chars)
    ELSE <<Head(s)>> \o RemoveChars(Tail(s), chars)

\* float(s) of an unsigned decimal text: digits, optionally a point and digits.
UnsignedFloat(s) ==
    LET points == {i \in 1..Len(s) : s[i] = "."}
        p == IF points = {} THEN Len(s) + 1 ELSE CHOOSE i \in points : TRUE
        whole == SubSeq(s, 1, p - 1)
        frac == SubSeq(s, p + 1, Len(s))
    IN IF /\ Cardinality(points) <= 1
          /\ \A i \in 1..Len(s) : IsDigit(s[i]) \/ s[i] = "."
          /\ Len(whole) + Len(frac) > 0
          /\ Len(frac) <= 2
       THEN [status |-> "ok",
             value |-> 100 * NatOf(whole)
                       + (IF Len(frac) = 1 THEN 10 * NatOf(frac) ELSE NatOf(frac))]
       ELSE [status |-> "error", value |-> 0]

\* float(s): an optional sign, then an unsigned decimal.
Float(s) ==
    IF s # <<>> /\ Head(s) \in {"-", "+"}
    THEN LET u == UnsignedFloat(Tail(s)) IN
         IF u.status = "ok" /\ Head(s) = "-" THEN [u EXCEPT !.value = -u.value] ELSE u
    ELSE UnsignedFloat(s)

\* A parser that reads the value inside parentheses without negating it.
parse_amount_unsigned(value) ==
    IF value = NaN THEN [status |-> "nan", value |-> 0]
    ELSE LET s == RemoveChars(Strip(value), {",", "$", " ", "(", ")"}) IN Float(s)

parse_amount(value) ==
    IF value = NaN THEN [status |-> "nan", value |-> 0]
    ELSE LET s == RemoveChars(Strip(value), {",", "$", " "}) IN
         IF Len(s) >= 1 /\ Head(s) = "(" /\ s[Len(s)] = ")"
         THEN LET inner == Float(SubSeq(s, 2, Len(s) - 1)) IN
              IF inner.status = "ok" THEN [inner EXCEPT !.value = -inner.value] ELSE inner
         ELSE Float(s)

(***************************************************************************)
(* ingest._normalize_cash_app and load_csv on a Cash App export.  A raw    *)
(* row holds the cells of the columns the normalizer reads.  The Date cell *)
(* is kept parsed: a day number, or NaT for an empty cell.                 *)
(***************************************************************************)
UpperChar(c) ==
    IF \E i \in 1..Len(LowerLetters) : LowerLetters[i] = c
    THEN UpperLetters[CHOOSE i \in 1..Len(LowerLetters) : LowerLetters[i] = c]
    ELSE c

Upper(s) == [i \in 1..Len(s) |-> UpperChar(s[i])]

\* Series.str.strip(): NaN stays NaN
StrStrip(cell) == IF cell = NaN THEN NaN ELSE Strip(cell)

\* Series.astype(str).str.strip(): NaN becomes the text "nan"
AsTypeStr(cell) == IF cell = NaN THEN <<"n", "a", "n">> ELSE cell

\* df[df["Status"].str.strip().str.upper() == "COMPLETE"]
IsComplete(raw) == raw.Status # NaN /\ Upper(Strip(raw.Status)) = <<"C", "O", "M", "P", "L", "E", "T", "E">>

Present(text) == text # <<>> /\ Lower(text) # <<"n", "a", "n">>

\* f"Cash App {row_type}"
TypeText(row_type) == IF row_type = NaN THEN <<"n", "a", "n">> ELSE row_type

\* The separator of " <sep> ".join(parts): a space, the three non-ASCII
\* characters of the source (written "-" here), a space.
JoinSeparator == <<" ", "-", "-", "-", " ">>

build_desc(row_type, row_notes, row_sender) ==
    IF row_type = <<"P", "2", "P">>
    THEN IF Present(row_notes) /\ Present(row_sender)
         THEN row_notes \o JoinSeparator \o row_sender
         ELSE IF Present(row_notes) THEN row_notes
         ELSE IF Present(row_sender) THEN row_sender
         ELSE <<"C", "a", "s", "h", " ", "A", "p", "p", " ", "P", "2", "P">>
    ELSE IF row_type = <<"W", "i", "t", "h", "d", "r", "a", "w", "a", "l">> THEN <<"C", "a", "s", "h", " ", "A", "p", "p", " ", "C", "a", "s", "h", " ", "O", "u", "t">>
    ELSE IF row_type = <<"D", "e", "p", "o", "s", "i", "t", "s">> THEN <<"C", "a", "s", "h", " ", "A", "p", "p", " ", "A", "d", "d", " ", "C", "a", "s", "h">>
    ELSE IF Present(row_notes) THEN row_notes
    ELSE <<"C", "a", "s", "h", " ", "A", "p", "p", " ">> \o TypeText(row_type)

\* One output row of the normalizer; the amount is still a parse outcome.
NormalizedCashAppRow(raw) ==
    [date |-> raw.Date,
     description |-> build_desc(StrStrip(raw.TransactionType),
                                Strip(AsTypeStr(raw.Notes)),
                                Strip(AsTypeStr(raw.Sender))),
     amount |-> parse_amount(raw.NetAmount),
     bank_category |-> StrStrip(raw.TransactionType)]

normalize_cash_app(rows) ==
    LET complete == SelectSeq(rows, IsComplete) IN
    [i \in 1..Len(complete) |-> NormalizedCashAppRow(complete[i])]

\* load_csv raises when a cell of a COMPLETE row does not parse.
CashAppRaises(rows) ==
    \E i \in 1..Len(rows) :
        /\ IsComplete(rows[i])
        /\ \/ parse_amount(rows[i].NetAmount).status = "error"
           \/ rows[i].Date = Unparseable

KeepRow(n) == n.date # NaT /\ n.amount.status = "ok"

\* out.dropna(subset=["date", "amount"]).reset_index(drop=True)
load_csv_cash_app(name, rows) ==
    LET kept == SelectSeq(normalize_cash_app(rows), KeepRow) IN
    [i \in 1..Len(kept) |->
        [RawRow(kept[i].date, kept[i].description, kept[i].amount.value,
                kept[i].bank_category) EXCEPT !.source_file = name]]

(***************************************************************************)
(* ingest._parse_date, ingest._normalize_bofa and load_csv on a Bank of    *)
(* America export.  A Date cell is kept as what parsing makes of it: a day *)
(* number when a format of DATE_FORMATS or the fallback parses the text,   *)
(* NaT for an empty cell, Unparseable for a text nothing parses, on which  *)
(* the fallback pd.to_datetime(value) raises.                              *)
(***************************************************************************)
parse_date(value) ==
    IF value = Unparseable THEN [status |-> "error", value |-> NaT]
    ELSE [status |-> "ok", value |-> value]

\* One output row of the normalizer; date and amount are parse outcomes.
NormalizedBofaRow(raw) ==
    [date |-> parse_date(raw.Date),
     description |-> Strip(AsTypeStr(raw.Description)),
     amount |-> parse_amount(raw.Amount),
     bank_category |-> <<>>]

normalize_bofa(rows) == [i \in 1..Len(rows) |-> NormalizedBofaRow(rows[i])]

\* Series.apply raises when _parse_date or _parse_amount raises on a cell.
BofaRaises(rows) ==
    \E i \in 1..Len(rows) :
        \/ NormalizedBofaRow(rows[i]).date.status = "error"
        \/ NormalizedBofaRow(rows[i]).amount.status = "error"

KeepBofaRow(n) == n.date.value # NaT /\ n.amount.status = "ok"

\* out.dropna(subset=["date", "amount"]).reset_index(drop=True)
load_csv_bofa(name, rows) ==
    LET kept == SelectSeq(normalize_bofa(rows), KeepBofaRow) IN
    [i \in 1..Len(kept) |->
        [RawRow(kept[i].date.value, kept[i].description, kept[i].amount.value,
                kept[i].bank_category) EXCEPT !.source_file = name]]

(***************************************************************************)
(* ingest._detect_format.  The header of a file is the sequence of its     *)
(* column names, in file order, each a text: the first line of the file.   *)
(***************************************************************************)
ChaseColumns == {<<"T", "r", "a", "n", "s", "a", "c", "t", "i", "o", "n", " ", "D", "a", "t", "e">>, <<"P", "o", "s", "t", " ", "D", "a", "t", "e">>, <<"D", "e", "s", "c", "r", "i", "p", "t", "i", "o", "n">>, <<"A", "m", "o", "u", "n", "t">>}

BofaColumns == {<<"D", "a", "t", "e">>, <<"D", "e", "s", "c", "r", "i", "p", "t", "i", "o", "n">>, <<"A", "m", "o", "u", "n", "t">>, <<"R", "u", "n", "n", "i", "n", "g", " ", "B", "a", "l", ".">>}

CapitalOneColumns ==
    {<<"T", "r", "a", "n", "s", "a", "c", "t", "i", "o", "n", " ", "D", "e", "s", "c", "r", "i", "p", "t", "i", "o", "n">>, <<"T", "r", "a", "n", "s", "a", "c", "t", "i", "o", "n", " ", "D", "a", "t", "e">>, <<"T", "r", "a", "n", "s", "a", "c", "t", "i", "o", "n", " ", "T", "y", "p", "e">>, <<"T", "r", "a", "n", "s", "a", "c", "t", "i", "o", "n", " ", "A", "m", "o", "u", "n", "t">>}

CashAppColumns == {<<"T", "r", "a", "n", "s", "a", "c", "t", "i", "o", "n", " ", "T", "y", "p", "e">>, <<"N", "e", "t", " ", "A", "m", "o", "u", "n", "t">>, <<"S", "t", "a", "t", "u", "s">>, <<"N", "o", "t", "e", "s">>}

\* set(df.columns.str.strip())
ColumnSet(header) == {Strip(header[i]) : i \in 1..Len(header)}

\* str.isdigit()
IsDigitText(s) == s # <<>> /\ \A i \in 1..Len(s) : IsDigit(s[i])

\* The list the generator of the Wells Fargo test runs over, each element
\* as str() prints it: the literal [0].
TestedItems == <<<<"0">>>>

\* all(str(c).isdigit() or str(c).startswith("0") for c in [0])
AllNumeric(items) ==
    \A i \in 1..Len(items) : IsDigitText(items[i]) \/ (items[i] # <<>> /\ Head(items[i]) = "0")

detect_format(header) ==
    LET cols == ColumnSet(header) IN
    IF ChaseColumns \subseteq cols THEN "chase"
    ELSE IF BofaColumns \subseteq cols THEN "bofa"
    ELSE IF CapitalOneColumns \subseteq cols THEN "capital_one"
    ELSE IF CashAppColumns \subseteq cols THEN "cash_app"
    ELSE IF Len(header) = 5 /\ AllNumeric(TestedItems) THEN "wells_fargo"
    ELSE "generic"

(***************************************************************************)
(* ingest._parse_date on the text of a cell, for the loaders that read     *)
(* cells by position.  A text is tried against DATE_FORMATS in order, with *)
(* two-digit months and days; the calendar of the model starts on          *)
(* 2024-01-01, and a text no format parses is one the fallback rejects.    *)
(***************************************************************************)
RECURSIVE DaysBeforeMonth(_, _)
DaysBeforeMonth(y, m) ==
    IF m = 1 THEN 0 ELSE DaysBeforeMonth(y, m - 1) + DaysInMonth(y, m - 1)

RECURSIVE DaysBeforeYear(_)
DaysBeforeYear(y) ==
    IF y <= 2024 THEN 0
    ELSE DaysBeforeYear(y - 1) + (IF IsLeap(y - 1) THEN 366 ELSE 365)

DayNumber(y, m, d) ==
    IF y >= 2024 /\ m \in 1..12 /\ d >= 1 /\ d <= DaysInMonth(y, m)
    THEN DaysBeforeYear(y) + DaysBeforeMonth(y, m) + d - 1
    ELSE Unparseable

\* The three numbers of a ten-character date text, left to right, if the
\* separators are in place.
DateFields(text, year_first, sep) ==
    LET a == IF year_first THEN SubSeq(text, 1, 4) ELSE SubSeq(text, 1, 2)
        b == IF year_first THEN SubSeq(text, 6, 7) ELSE SubSeq(text, 4, 5)
        c == IF year_first THEN SubSeq(text, 9, 10) ELSE SubSeq(text, 7, 10)
    IN IF /\ Len(text) = 10
          /\ text[IF year_first THEN 5 ELSE 3] = sep
          /\ text[IF year_first THEN 8 ELSE 6] = sep
          /\ IsDigitText(a) /\ IsDigitText(b) /\ IsDigitText(c)
       THEN <<NatOf(a), NatOf(b), NatOf(c)>>
       ELSE <<>>

\* DATE_FORMATS: where each format puts the year, the month and the day
\* among the three numbers of the text, and its separator.
DATE_FORMATS ==
    <<[year |-> 1, month |-> 2, day |-> 3, sep |-> "-"],
      [year |-> 3, month |-> 1, day |-> 2, sep |-> "/"],
      [year |-> 3, month |-> 2, day |-> 1, sep |-> "/"],
      [year |-> 3, month |-> 1, day |-> 2, sep |-> "-"],
      [year |-> 1, month |-> 2, day |-> 3, sep |-> "/"]>>

\* pd.to_datetime(value, format=f)
StrpTime(text, f) ==
    LET n == DateFields(text, f.year = 1, f.sep) IN
    IF n = <<>> THEN Unparseable ELSE DayNumber(n[f.year], n[f.month], n[f.day])

\* The formats of DATE_FORMATS tried on a text, in order.
DateAttempts(text) == [k \in 1..Len(DATE_FORMATS) |-> StrpTime(text, DATE_FORMATS[k])]

\* The first attempt that parses: the return inside the loop.
FirstParsed(attempts) ==
    LET parsed == {i \in 1..Len(attempts) : attempts[i] # Unparseable} IN
    IF parsed = {} THEN Unparseable
    ELSE attempts[CHOOSE i \in parsed : \A j \in parsed : i <= j]

\* What parsing makes of a cell: a day number, NaT or Unparseable.
DateOfText(text) == IF text = NaN THEN NaT ELSE FirstParsed(DateAttempts(text))

(***************************************************************************)
(* ingest._normalize_chase, _normalize_capital_one, _normalize_wells_fargo *)
(* and _normalize_generic.  A row of a Chase or Capital One export holds   *)
(* the cells of the columns the normalizer reads, as a Bank of America row *)
(* does; a row of the other two is the sequence of its cells, in column    *)
(* order.                                                                  *)
(***************************************************************************)
\* df.get("Category", pd.Series(dtype=str)).fillna("").astype(str).str.strip();
\* without the column the empty Series aligns to missing values.
ChaseCategory(raw) ==
    IF "Category" \notin DOMAIN raw THEN NaN
    ELSE IF raw.Category = NaN THEN <<>> ELSE Strip(raw.Category)

NormalizedChaseRow(raw) ==
    [date |-> parse_date(raw.TransactionDate),
     description |-> Strip(AsTypeStr(raw.Description)),
     amount |-> parse_amount(raw.Amount),
     bank_category |-> ChaseCategory(raw)]

normalize_chase(rows) == [i \in 1..Len(rows) |-> NormalizedChaseRow(rows[i])]

\* A test that knows the word "Credit" only as it is written here.
IsCreditExact(cell) == cell = <<"C", "r", "e", "d", "i", "t">>

\* df["Transaction Type"].str.strip().str.lower() == "credit"
IsCredit(cell) == cell # NaN /\ Lower(Strip(cell)) = <<"c", "r", "e", "d", "i", "t">>

\* amounts.where(<credit>, -amounts)
SignedByType(amount, type) ==
    IF amount.status = "ok" /\ ~IsCredit(type)
    THEN [amount EXCEPT !.value = -amount.value]
    ELSE amount

NormalizedCapitalOneRow(raw) ==
    [date |-> parse_date(raw.TransactionDate),
     description |-> Strip(AsTypeStr(raw.TransactionDescription)),
     amount |-> SignedByType(parse_amount(raw.TransactionAmount), raw.TransactionType),
     bank_category |-> <<>>]

normalize_capital_one(rows) == [i \in 1..Len(rows) |-> NormalizedCapitalOneRow(rows[i])]

\* pd.read_csv(filepath, header=None, dtype=str): the first line of the
\* file is a row of data.
WithoutHeader(file) == <<file.header>> \o file.rows

NormalizedWellsFargoRow(raw) ==
    [date |-> parse_date(DateOfText(raw[1])),
     description |-> Strip(AsTypeStr(raw[5])),
     amount |-> parse_amount(raw[2]),
     bank_category |-> <<>>]

normalize_wells_fargo(rows) == [i \in 1..Len(rows) |-> NormalizedWellsFargoRow(rows[i])]

DateHints == {<<"d", "a", "t", "e">>}

DescriptionHints == {<<"d", "e", "s", "c">>, <<"m", "e", "m", "o">>, <<"n", "a", "m", "e">>, <<"m", "e", "r", "c", "h", "a", "n", "t">>, <<"p", "a", "y", "e", "e">>}

AmountHints == {<<"a", "m", "o", "u", "n", "t">>, <<"d", "e", "b", "i", "t">>, <<"c", "r", "e", "d", "i", "t">>, <<"s", "u", "m">>, <<"t", "o", "t", "a", "l">>}

\* next((cols_lower[k] for k in cols_lower if <a hint> in k), None), as the
\* position of the column, 0 for None: the first key with a hint, and the
\* last column that lowers to that key.
HintedColumn(header, hints) ==
    LET key(i) == Lower(Strip(header[i]))
        hinted == {i \in 1..Len(header) : \E h \in hints : Contains(key(i), h)}
        first == CHOOSE i \in hinted : \A j \in hinted : i <= j
        same == {j \in 1..Len(header) : key(j) = key(first)}
    IN IF hinted = {} THEN 0 ELSE CHOOSE j \in same : \A k \in same : k <= j

\* raise ValueError("Cannot auto-detect columns. ...")
GenericRaises(header) ==
    \/ HintedColumn(header, DateHints) = 0
    \/ HintedColumn(header, DescriptionHints) = 0
    \/ HintedColumn(header, AmountHints) = 0

NormalizedGenericRow(header, raw) ==
    [date |-> parse_date(DateOfText(raw[HintedColumn(header, DateHints)])),
     description |-> Strip(AsTypeStr(raw[HintedColumn(header, DescriptionHints)])),
     amount |-> parse_amount(raw[HintedColumn(header, AmountHints)]),
     bank_category |-> <<>>]

normalize_generic(header, rows) ==
    [i \in 1..Len(rows) |-> NormalizedGenericRow(header, rows[i])]

\* Series.apply raises when _parse_date or _parse_amount raises on a cell.
NormalizerRaises(rows) ==
    \E i \in 1..Len(rows) : rows[i].date.status = "error" \/ rows[i].amount.status = "error"

\* out.dropna(subset=["date", "amount"]).reset_index(drop=True)
DropNa(name, rows) ==
    LET kept == SelectSeq(rows, KeepBofaRow) IN
    [i \in 1..Len(kept) |->
        [RawRow(kept[i].date.value, kept[i].description, kept[i].amount.value,
                kept[i].bank_category) EXCEPT !.source_file = name]]

(***************************************************************************)
(* ingest.load_csv and ingest.load_directory.  A file is a record [name,   *)
(* header, rows].  A file whose load raises is skipped with a warning.     *)
(***************************************************************************)
\* The columns _normalize_cash_app indexes.
CashAppRead ==
    CashAppColumns \cup {<<"D", "a", "t", "e">>, <<"N", "a", "m", "e", " ", "o", "f", " ", "s", "e", "n", "d", "e", "r", "/", "r", "e", "c", "e", "i", "v", "e", "r">>}

\* The frame the normalizer of a format returns, before load_csv drops rows.
Normalized(file) ==
    LET fmt == detect_format(file.header) IN
    IF fmt = "chase" THEN normalize_chase(file.rows)
    ELSE IF fmt = "bofa" THEN normalize_bofa(file.rows)
    ELSE IF fmt = "capital_one" THEN normalize_capital_one(file.rows)
    ELSE IF fmt = "wells_fargo" THEN normalize_wells_fargo(WithoutHeader(file))
    ELSE normalize_generic(file.header, file.rows)

LoadRaises(file) ==
    LET fmt == detect_format(file.header) IN
    IF fmt = "cash_app"
    THEN ~(CashAppRead \subseteq ColumnSet(file.header)) \/ CashAppRaises(file.rows)
    ELSE IF fmt = "bofa" THEN BofaRaises(file.rows)
    ELSE IF fmt = "generic" /\ GenericRaises(file.header) THEN TRUE
    ELSE NormalizerRaises(Normalized(file))

load_csv(file) ==
    LET fmt == detect_format(file.header) IN
    IF fmt = "cash_app" THEN load_csv_cash_app(file.name, file.rows)
    ELSE IF fmt = "bofa" THEN load_csv_bofa(file.name, file.rows)
    ELSE DropNa(file.name, Normalized(file))

\* The value of fmt in load_csv, for each file of the directory.
Detected(fs) == [i \in 1..Len(fs) |-> detect_format(fs[i].header)]

\* The header of the exports the loaders of the model read.
BofaHeader == <<<<"D", "a", "t", "e">>, <<"D", "e", "s", "c", "r", "i", "p", "t", "i", "o", "n">>, <<"A", "m", "o", "u", "n", "t">>, <<"R", "u", "n", "n", "i", "n", "g", " ", "B", "a", "l", ".">>>>

CashAppHeader ==
    <<<<"D", "a", "t", "e">>, <<"T", "r", "a", "n", "s", "a", "c", "t", "i", "o", "n", " ", "T", "y", "p", "e">>, <<"N", "e", "t", " ", "A", "m", "o", "u", "n", "t">>, <<"S", "t", "a", "t", "u", "s">>, <<"N", "o", "t", "e", "s">>,
      <<"N", "a", "m", "e", " ", "o", "f", " ", "s", "e", "n", "d", "e", "r", "/", "r", "e", "c", "e", "i", "v", "e", "r">>>>

RECURSIVE ConcatFrames(_)
ConcatFrames(fs) ==
    IF fs = <<>> THEN <<>>
    ELSE (IF LoadRaises(Head(fs)) THEN <<>> ELSE load_csv(Head(fs)))
         \o ConcatFrames(Tail(fs))

\* A loader that gives up on the first file whose load raises.
LoadedStrict(fs) ==
    IF \E i \in 1..Len(fs) : LoadRaises(fs[i]) THEN {} ELSE 1..Len(fs)

\* The files load_directory appends to frames.
Loaded(fs) == {i \in 1..Len(fs) : ~LoadRaises(fs[i])}

RECURSIVE Skipped(_)
Skipped(fs) ==
    IF fs = <<>> THEN <<>>
    ELSE (IF LoadRaises(Head(fs)) THEN <<Head(fs).name>> ELSE <<>>) \o Skipped(Tail(fs))

\* The file names of the model, in the order sorted() puts their paths.
SortedNames == <<"a.csv", "b.csv", "cash.csv">>

NameRank(name) == CHOOSE k \in 1..Len(SortedNames) : SortedNames[k] = name

\* A loader that takes the files as the directory lists them.
AsListed(listing) == listing

\* sorted(directory.glob(pattern))
RECURSIVE SortedByName(_)
SortedByName(listing) ==
    IF listing = <<>> THEN <<>>
    ELSE LET least == CHOOSE i \in 1..Len(listing) :
                          \A j \in 1..Len(listing) :
                              NameRank(listing[i].name) <= NameRank(listing[j].name)
         IN  <<listing[least]>>
             \o SortedByName(SubSeq(listing, 1, least - 1)
                             \o SubSeq(listing, least + 1, Len(listing)))

\* Step 1 of main: load_directory, the exceptions main catches and the test
\* for an empty ledger.
LoadDirectory ==
    /\ stage = "start"
    /\ prev' = ledger
    /\ LET csv_files == SortedByName(files) IN
       \/ /\ ~is_dir
          /\ message' = "Directory not found"
          /\ UNCHANGED <<ledger, warnings, formats>>
       \/ /\ is_dir
          /\ csv_files = <<>>
          /\ message' = "No CSV files found"
          /\ UNCHANGED <<ledger, warnings, formats>>
       \/ /\ is_dir
          /\ csv_files # <<>>
          /\ Loaded(csv_files) = {}
          /\ message' = "No valid CSV files could be loaded."
          /\ warnings' = Skipped(csv_files)
          /\ formats' = Detected(csv_files)
          /\ ledger' = ledger
       \/ /\ is_dir
          /\ Loaded(csv_files) # {}
          /\ ConcatFrames(csv_files) = <<>>
          /\ message' = "No transactions found. Exiting."
          /\ warnings' = Skipped(csv_files)
          /\ formats' = Detected(csv_files)
          /\ ledger' = ledger
       \/ /\ is_dir
          /\ Loaded(csv_files) # {}
          /\ ConcatFrames(csv_files) # <<>>
          /\ ledger' \in SortValuesDate(ConcatFrames(csv_files))
          /\ warnings' = Skipped(csv_files)
          /\ formats' = Detected(csv_files)
          /\ message' = message
    /\ IF message' = ""
       THEN stage' = "ingested" /\ exit_code' = exit_code /\ steps' = Append(steps, "ingest")
       ELSE stage' = "failed" /\ exit_code' = <<1>> /\ steps' = steps
    /\ UNCHANGED <<files, std_threshold, starting_balance, categories, result, budgets,
                   is_dir, config_exists, start, end, output, curr_spend>>

(***************************************************************************)
(* load_directory over a directory of Bank of America exports.             *)
(***************************************************************************)
MaxLoadRows == 2

LoadFileNames == <<"a.csv", "b.csv">>

BofaRow(date, description, amount) ==
    [Date |-> date, Description |-> description, Amount |-> amount]

\* A row per case of a cell: a date that parses, an empty date, a date that
\* nothing parses, an amount that float() rejects.
BofaRows ==
    {BofaRow(d, <<"a">>, <<"-", "5">>) : d \in {0, 1, NaT, Unparseable}}
    \cup {BofaRow(0, <<"b">>, <<"x">>)}

BofaFiles(name) ==
    {[name |-> name, header |-> BofaHeader, rows |-> r] : r \in SeqsUpTo(BofaRows, MaxLoadRows)}

Directories ==
    {<<>>}
    \cup {<<a>> : a \in BofaFiles(LoadFileNames[1])}
    \cup {<<a, b>> : a \in BofaFiles(LoadFileNames[1]), b \in BofaFiles(LoadFileNames[2])}

InitLoad ==
    /\ files \in Directories
    /\ ledger = <<>>
    /\ prev = <<>>
    /\ stage = "start"
    /\ std_threshold = 20
    /\ starting_balance = 0
    /\ categories = <<>>
    /\ result = NoViews
    /\ Standalone

NextLoad == LoadDirectory

SpecLoad == InitLoad /\ [][NextLoad]_vars

\* The rows of file f as load_directory returns them, in file order.
RowsOf(df, name) == SelectSeq(df, LAMBDA row : row.source_file = name)

\* Two frames hold the same rows, each as many times, in any order.
SameRows(a, b) ==
    /\ Len(a) = Len(b)
    /\ \A i \in 1..Len(a) :
           Cardinality({k \in 1..Len(a) : a[k] = a[i]})
               = Cardinality({k \in 1..Len(b) : b[k] = a[i]})

ParsedFiles == {i \in 1..Len(files) : ~LoadRaises(files[i])}

\* C14: once load_directory has run on a directory with files, the files
\* that do not parse are the warnings, in order; the run fails with "No
\* valid CSV files could be loaded." exactly when no file parses; on
\* success the ledger is sorted by date ascending and holds, for every file
\* that parses, exactly the rows load_csv returns for it, in some order,
\* and no row of a file that does not parse.
C14_PartialFailure ==
    (stage # "start" /\ files # <<>>) =>
        /\ \A i \in 1..Len(files) :
               LoadRaises(files[i]) <=> (\E k \in 1..Len(warnings) : warnings[k] = files[i].name)
        /\ Len(warnings) = Len(files) - Cardinality(ParsedFiles)
        /\ (message = "No valid CSV files could be loaded.") <=> (ParsedFiles = {})
        /\ stage = "ingested" =>
               /\ ParsedFiles # {}
               /\ IsSortedByDate(ledger)
               /\ \A i \in 1..Len(files) :
                      SameRows(RowsOf(ledger, files[i].name),
                               IF i \in ParsedFiles THEN load_csv(files[i]) ELSE <<>>)
        /\ (stage = "failed" /\ ParsedFiles # {}) =>
               \A i \in ParsedFiles : load_csv(files[i]) = <<>>

\* A directory of two files: the first does not parse, the second gives its
\* two rows to the ledger.
C14_Witness ==
    /\ stage = "ingested"
    /\ Len(files) = 2
    /\ LoadRaises(files[1])
    /\ warnings = <<"a.csv">>
    /\ Len(ledger) = 2
    /\ \A k \in 1..2 : ledger[k].source_file = "b.csv"

\* A row that loads when it is alone in its file.
IsSoundRow(raw) ==
    raw.Date \notin {NaT, Unparseable} /\ parse_amount(raw.Amount).status = "ok"

\* A file whose only faulty cells are dates that nothing parses.
OnlyMalformedDates(file) ==
    /\ \E i \in 1..Len(file.rows) : file.rows[i].Date = Unparseable
    /\ \A i \in 1..Len(file.rows) : parse_amount(file.rows[i].Amount).status # "error"

SoundRowsOf(file) == {i \in 1..Len(file.rows) : IsSoundRow(file.rows[i])}

\* C15 as stated: a date that nothing parses never raises; only its row is
\* dropped, the other rows of the file are loaded into the ledger.
C15_MalformedDateDropsRow ==
    (stage # "start") =>
        \A i \in 1..Len(files) :
            (OnlyMalformedDates(files[i]) /\ SoundRowsOf(files[i]) # {}) =>
                /\ stage = "ingested"
                /\ Len(RowsOf(ledger, files[i].name)) = Cardinality(SoundRowsOf(files[i]))

\* C15 as the code behaves: an EMPTY date cell is coerced to NaT and only
\* its row is dropped; a date that nothing parses raises in _parse_date, the
\* whole file is skipped with a warning, and none of its rows is loaded.
C15_MalformedDateSkipsFile ==
    (stage # "start") =>
        \A i \in 1..Len(files) :
            /\ (\E j \in 1..Len(files[i].rows) : files[i].rows[j].Date = Unparseable) =>
                   /\ \E k \in 1..Len(warnings) : warnings[k] = files[i].name
                   /\ RowsOf(ledger, files[i].name) = <<>>
            /\ (/\ stage = "ingested"
                /\ \A j \in 1..Len(files[i].rows) :
                       /\ files[i].rows[j].Date # Unparseable
                       /\ parse_amount(files[i].rows[j].Amount).status # "error") =>
                   Len(RowsOf(ledger, files[i].name)) = Cardinality(SoundRowsOf(files[i]))

\* A file with a sound row and a row whose date nothing parses is skipped
\* whole; a file with a sound row and an empty date loses that row alone.
C15_Witness ==
    /\ stage = "ingested"
    /\ Len(files) = 2
    /\ files[1].rows = <<BofaRow(0, <<"a">>, <<"-", "5">>), BofaRow(Unparseable, <<"a">>, <<"-", "5">>)>>
    /\ files[2].rows = <<BofaRow(1, <<"a">>, <<"-", "5">>), BofaRow(NaT, <<"a">>, <<"-", "5">>)>>
    /\ warnings = <<"a.csv">>
    /\ Len(ledger) = 1
    /\ ledger[1].source_file = "b.csv"

(***************************************************************************)
(* ingest._parse_amount on the Amount cell of a one-row export.  An amount *)
(* text is put together from its parts, so that the value it stands for is *)
(* known without parsing it.                                               *)
(***************************************************************************)
AmountBodies ==
    {[text |-> <<"1", "2", "3", ".", "4", "5">>, value |-> 12345],
     [text |-> <<"1", ",", "2", "3", "4", ".", "5", "0">>, value |-> 123450],
     [text |-> <<"5">>, value |-> 500],
     [text |-> <<"0", ".", "5">>, value |-> 50]}

AmountCases ==
    [pad : {<<>>, <<" ">>}, paren : BOOLEAN, sign : {<<>>, <<"-">>}, dollar : BOOLEAN,
     body : AmountBodies]

TextOf(c) ==
    c.pad \o (IF c.paren THEN <<"(">> ELSE <<>>) \o c.sign
          \o (IF c.dollar THEN <<"$">> ELSE <<>>) \o c.body.text
          \o (IF c.paren THEN <<")">> ELSE <<>>) \o c.pad

AmountFiles ==
    {<<[name |-> "a.csv", header |-> BofaHeader,
        rows |-> <<BofaRow(0, <<"a">>, TextOf(c))>>]>> : c \in AmountCases}

InitAmount ==
    /\ files \in AmountFiles
    /\ ledger = <<>>
    /\ prev = <<>>
    /\ stage = "start"
    /\ std_threshold = 20
    /\ starting_balance = 0
    /\ categories = <<>>
    /\ result = NoViews
    /\ Standalone

NextAmount == LoadDirectory

SpecAmount == InitAmount /\ [][NextAmount]_vars

\* The hundredths the parts of an amount text stand for.
SignedValue(c) == (IF c.sign = <<>> THEN 1 ELSE -1) * c.body.value

AmountCell == files[1].rows[1].Amount

\* C20: the amount of a loaded row is the value of its text with "$", ","
\* and surrounding blanks ignored; a text in parentheses gives the negative
\* of the value inside, a text without parentheses keeps its own sign;
\* "(123.45)" gives -123.45, "$1,234.50" gives 1234.50 and "($1,234.50)"
\* gives -1234.50.
C20_ParseAmount ==
    (stage # "start") =>
        /\ stage = "ingested"
        /\ Len(ledger) = 1
        /\ \A c \in AmountCases :
               AmountCell = TextOf(c) =>
                   ledger[1].amount = IF c.paren THEN -SignedValue(c) ELSE SignedValue(c)
        /\ AmountCell = <<"(", "1", "2", "3", ".", "4", "5", ")">> => ledger[1].amount = -12345
        /\ AmountCell = <<"$", "1", ",", "2", "3", "4", ".", "5", "0">> => ledger[1].amount = 123450
        /\ AmountCell = <<"(", "$", "1", ",", "2", "3", "4", ".", "5", "0", ")">> => ledger[1].amount = -123450

C20_Witness ==
    /\ stage = "ingested"
    /\ AmountCell = <<"(", "$", "1", ",", "2", "3", "4", ".", "5", "0", ")">>
    /\ ledger[1].amount = -123450

(***************************************************************************)
(* The categorizer on its own.  Three families of inputs: one description  *)
(* against every rule set; small ledgers with a bank_category that is or   *)
(* is not a transfer signal; and a directory holding one Cash App export,  *)
(* which load_directory normalizes before categorize runs.                 *)
(***************************************************************************)
MaxLen == 3
MaxCategories == 2

DescChars == {"a", "A", "b"}

Descriptions == SeqsUpTo(DescChars, MaxLen)

KeywordLists == {<<>>, <<<<"a">>>>, <<<<"B">>, <<"a", "b">>>>, <<<<"b", "b">>>>}

CategoryNames == {"Food", "Income", "Shopping"}

RuleSets ==
    {cats \in SeqsUpTo([name : CategoryNames, keywords : KeywordLists], MaxCategories) :
        \A i, j \in 1..Len(cats) : i # j => cats[i].name # cats[j].name}

BankCategories == {<<>>, <<"W", "i", "t", "h", "d", "r", "a", "w", "a", "l">>, <<" ", "D", "E", "P", "O", "S", "I", "T", "S", " ">>, <<"P", "2", "P">>, <<"d", "e", "p", "o", "s", "i", "t">>}

SignalRows ==
    {RawRow(0, d, -1, b) : d \in {<<"a">>, <<"b">>}, b \in BankCategories}

SignalRules == {<<>>, <<[name |-> "Food", keywords |-> <<<<"a">>>>]>>}

CashAppRow(status, type, notes, amount, date) ==
    [Date |-> date, Status |-> status, TransactionType |-> type, Notes |-> notes,
     Sender |-> NaN, NetAmount |-> amount]

CashAppRows ==
    {CashAppRow(<<"C", "O", "M", "P", "L", "E", "T", "E">>, t, n, <<"-", "$", "1", ".", "5", "0">>, 0) :
        t \in {<<"W", "i", "t", "h", "d", "r", "a", "w", "a", "l">>, <<"D", "e", "p", "o", "s", "i", "t", "s", " ">>, <<"P", "2", "P">>, <<"C", "a", "s", "h", " ", "C", "a", "r", "d">>},
        n \in {NaN, <<"a">>}}
    \cup {CashAppRow(<<"F", "A", "I", "L", "E", "D">>, <<"W", "i", "t", "h", "d", "r", "a", "w", "a", "l">>, NaN, <<"-", "$", "1", ".", "5", "0">>, 0),
          CashAppRow(<<" ", "c", "o", "m", "p", "l", "e", "t", "e", " ">>, <<"D", "e", "p", "o", "s", "i", "t", "s", " ">>, NaN, <<"(", "$", "2", ")">>, 1),
          CashAppRow(<<"C", "O", "M", "P", "L", "E", "T", "E">>, <<"W", "i", "t", "h", "d", "r", "a", "w", "a", "l">>, NaN, NaN, 0),
          CashAppRow(<<"C", "O", "M", "P", "L", "E", "T", "E">>, <<"D", "e", "p", "o", "s", "i", "t", "s", " ">>, NaN, <<"-", "$", "1", ".", "5", "0">>, NaT),
          CashAppRow(<<"C", "O", "M", "P", "L", "E", "T", "E">>, <<"P", "2", "P">>, NaN, <<"a", "b", "c">>, 0)}

CashAppFiles ==
    {[name |-> "cash.csv", header |-> CashAppHeader, rows |-> r] : r \in SeqsUpTo(CashAppRows, 2)}

InitCat ==
    /\ \/ /\ stage = "ingested"
          /\ files = <<>>
          /\ \/ /\ categories \in RuleSets
                /\ ledger \in {<<RawRow(0, d, -1, <<>>)>> : d \in Descriptions}
             \/ /\ categories \in SignalRules
                /\ ledger \in SeqsUpTo(SignalRows, 2)
       \/ /\ stage = "start"
          /\ files \in {<<>>} \cup {<<f>> : f \in CashAppFiles}
          /\ categories \in SignalRules
          /\ ledger = <<>>
    /\ prev = <<>>
    /\ std_threshold = 20
    /\ starting_balance = 0
    /\ result = NoViews
    /\ Standalone

NextCat == LoadDirectory \/ Categorize

SpecCat == InitCat /\ [][NextCat]_vars

(***************************************************************************)
(* What the claims about the categorizer speak of.                         *)
(***************************************************************************)
\* kw occurs in text as a substring, letter case ignored.
OccursIgnoringCase(kw, text) ==
    \E k \in 0..(Len(text) - Len(kw)) :
        \A i \in 1..Len(kw) : LowerChar(text[k + i]) = LowerChar(kw[i])

\* The positions, in the configured order, of the categories with a keyword
\* that occurs in the description.
MatchingCategories(description, cats) ==
    {c \in 1..Len(cats) :
        \E k \in 1..Len(cats[c].keywords) :
            OccursIgnoringCase(cats[c].keywords[k], description)}

\* The category the contract assigns by keyword: the first matching one in
\* the configured order, "Other" without a match.
FirstRuleWins(description, cats) ==
    LET matching == MatchingCategories(description, cats) IN
    IF matching = {} THEN "Other"
    ELSE cats[CHOOSE c \in matching : \A d \in matching : c <= d].name

\* The text is "withdrawal" or "deposits" once trimmed, letter case ignored.
IsTransferSignal(text) ==
    \E a, b \in 0..Len(text) :
        /\ a + b <= Len(text)
        /\ \A i \in 1..a : text[i] \in Whitespace
        /\ \A i \in (Len(text) - b + 1)..Len(text) : text[i] \in Whitespace
        /\ a + b < Len(text) =>
              text[a + 1] \notin Whitespace /\ text[Len(text) - b] \notin Whitespace
        /\ \E word \in {<<"w", "i", "t", "h", "d", "r", "a", "w", "a", "l">>, <<"d", "e", "p", "o", "s", "i", "t", "s">>} :
              /\ Len(word) = Len(text) - a - b
              /\ \A i \in 1..Len(word) : LowerChar(text[a + i]) = word[i]

\* C6: _categorize_single returns the first category, in the configured
\* order, with a keyword occurring in the description as a case-insensitive
\* substring, and "Other" when no keyword of any category occurs; within one
\* run (one rule set) equal descriptions get equal categories.
C6_FirstRuleWins ==
    stage = "categorized" =>
        /\ \A i \in 1..Len(ledger) :
              ~IsTransferSignal(prev[i].bank_category) =>
                  /\ ledger[i].category = FirstRuleWins(prev[i].description, categories)
                  /\ ledger[i].category = "Other"
                        <=> MatchingCategories(prev[i].description, categories) = {}
        /\ \A i, j \in 1..Len(ledger) :
              (/\ prev[i].description = prev[j].description
               /\ ~IsTransferSignal(prev[i].bank_category)
               /\ ~IsTransferSignal(prev[j].bank_category))
                  => ledger[i].category = ledger[j].category

\* Two categories match the description, the later one through an upper-case
\* keyword, and the earlier one is returned.
C6_Witness ==
    /\ stage = "categorized"
    /\ Len(ledger) = 1
    /\ Len(categories) = 2
    /\ MatchingCategories(ledger[1].description, categories) = {1, 2}
    /\ categories[2].keywords[1] = <<"B">>
    /\ ledger[1].category = categories[1].name

\* The number of rows of raw Cash App files that the normalizer emits (status
\* complete, amount and date present) with the given transaction type.
RECURSIVE EmittedOfType(_, _)
EmittedOfType(fs, type) ==
    IF fs = <<>> THEN 0
    ELSE Cardinality({i \in 1..Len(Head(fs).rows) :
                         /\ IsComplete(Head(fs).rows[i])
                         /\ Head(fs).rows[i].NetAmount # NaN
                         /\ Head(fs).rows[i].Date # NaT
                         /\ Head(fs).rows[i].TransactionType # NaN
                         /\ Strip(Head(fs).rows[i].TransactionType) = type})
         + EmittedOfType(Tail(fs), type)

\* C7: after categorize every row whose bank_category is a transfer signal
\* ("withdrawal" or "deposits", trimmed, case-insensitive) has the category
\* "Transfer" whatever its description matches, and every other row has its
\* keyword-derived category; and every Withdrawal or Deposits row a Cash App
\* export yields carries that type in bank_category, so it ends as Transfer.
C7_TransferSignalOverrides ==
    /\ stage = "categorized" =>
          \A i \in 1..Len(ledger) :
              ledger[i].category =
                  IF IsTransferSignal(prev[i].bank_category) THEN "Transfer"
                  ELSE FirstRuleWins(prev[i].description, categories)
    /\ (stage \in {"ingested", "categorized"} /\ files # <<>>) =>
          \A type \in {<<"W", "i", "t", "h", "d", "r", "a", "w", "a", "l">>, <<"D", "e", "p", "o", "s", "i", "t", "s">>} :
              /\ Cardinality({i \in 1..Len(ledger) : ledger[i].bank_category = type})
                    = EmittedOfType(files, type)
              /\ \A i \in 1..Len(ledger) :
                    ledger[i].bank_category = type =>
                        /\ IsTransferSignal(ledger[i].bank_category)
                        /\ stage = "categorized" => ledger[i].category = "Transfer"

\* A Cash App Withdrawal row whose description matches the keyword of the
\* Food category has been categorized Transfer.
C7_Witness ==
    /\ stage = "categorized"
    /\ files # <<>>
    /\ categories # <<>>
    /\ \E i \in 1..Len(ledger) :
          /\ ledger[i].bank_category = <<"W", "i", "t", "h", "d", "r", "a", "w", "a", "l">>
          /\ ledger[i].description = <<"C", "a", "s", "h", " ", "A", "p", "p", " ", "C", "a", "s", "h", " ", "O", "u", "t">>
          /\ FirstRuleWins(ledger[i].description, categories) = "Food"
          /\ ledger[i].category = "Transfer"

(***************************************************************************)
(* analyze.running_balance.                                                *)
(***************************************************************************)
MaxBalRows == 3

\* Series.cumsum(): the sum of the first i amounts of the frame.  The
\* amounts of a loaded ledger are never NaN: load_csv drops such rows.
RECURSIVE cumsum(_, _)
cumsum(df, i) == IF i = 0 THEN 0 ELSE cumsum(df, i - 1) + df[i].amount

\* The frame with the running_balance column added, for one outcome of
\* the sort.
with_running_balance(df, balance) ==
    [i \in 1..Len(df) |-> [df[i] EXCEPT !.running_balance = balance + cumsum(df, i)]]

running_balance_unsorted(df, balance) == {with_running_balance(df, balance)}

running_balance(df, balance) ==
    {with_running_balance(sorted, balance) : sorted \in SortValuesDate(df)}

RunningBalance ==
    /\ stage = "anomalies"
    /\ ledger' \in running_balance(ledger, starting_balance)
    /\ prev' = ledger
    /\ stage' = "balanced"
    /\ UNCHANGED <<files, std_threshold, starting_balance, categories, result, run, budgets>>

(***************************************************************************)
(* The running balance on its own.  Its input is a ledger as               *)
(* flag_anomalies returns it, of up to MaxBalRows rows in any order: rows  *)
(* of the amounts -50, +200 and -30 on three days, a duplicate-flagged     *)
(* row and a Transfer row.                                                 *)
(***************************************************************************)
BalRow(date, amount, category, is_duplicate) ==
    EnrichedRow(date, <<"a">>, amount, <<>>, category, <<"A">>, is_duplicate)

BalRows ==
    {BalRow(d, a, "Food", FALSE) : d \in 0..2, a \in {-50, 200, -30}}
        \cup {BalRow(0, -50, "Food", TRUE), BalRow(1, 200, "Transfer", FALSE)}

InitBal ==
    /\ ledger \in SeqsUpTo(BalRows, MaxBalRows)
    /\ starting_balance \in {0, 1000}
    /\ files = <<>>
    /\ prev = <<>>
    /\ stage = "anomalies"
    /\ std_threshold = 20
    /\ categories = <<>>
    /\ result = NoViews
    /\ Standalone

NextBal == RunningBalance

SpecBal == InitBal /\ [][NextBal]_vars

\* The rows of a frame with the running_balance column taken off, as a bag:
\* how often each row occurs.
WithoutBalance(row) == [row EXCEPT !.running_balance = Null]

Occurrences(df, row) == Cardinality({i \in 1..Len(df) : WithoutBalance(df[i]) = row})

RECURSIVE SumOfAmounts(_)
SumOfAmounts(df) == IF df = <<>> THEN 0 ELSE Head(df).amount + SumOfAmounts(Tail(df))

\* C9: running_balance returns every row of its input, duplicate-flagged
\* and Transfer rows included, sorted by date ascending; the balance of the
\* i-th row is starting_balance plus the signed amounts of rows 1..i; the
\* amounts -50, +200, -30 in date order from 1000 give 950, 1150, 1120; the
\* last balance is starting_balance plus the sum of all amounts.
C9_RunningBalance ==
    stage = "balanced" =>
        /\ Len(ledger) = Len(prev)
        /\ \A i \in 1..Len(prev) :
              Occurrences(ledger, prev[i]) = Occurrences(prev, prev[i])
        /\ \A i \in 1..Len(ledger) - 1 : ledger[i].date <= ledger[i + 1].date
        /\ \A i \in 1..Len(ledger) :
              ledger[i].running_balance
                  = starting_balance + SumOfAmounts(SubSeq(ledger, 1, i))
        /\ ledger # <<>> =>
              ledger[Len(ledger)].running_balance = starting_balance + SumOfAmounts(prev)
        /\ (/\ starting_balance = 1000
            /\ [i \in 1..Len(ledger) |-> ledger[i].amount] = <<-50, 200, -30>>)
              => [i \in 1..Len(ledger) |-> ledger[i].running_balance]
                    = <<950, 1150, 1120>>

\* The example, given out of date order, with a duplicate-flagged row and a
\* Transfer row in it.
C9_Witness ==
    /\ stage = "balanced"
    /\ starting_balance = 1000
    /\ [i \in 1..Len(prev) |-> prev[i].amount] = <<-30, 200, -50>>
    /\ [i \in 1..Len(prev) |-> prev[i].date] = <<2, 1, 0>>
    /\ [i \in 1..Len(ledger) |-> ledger[i].running_balance] = <<950, 1150, 1120>>
    /\ ledger[1].is_duplicate
    /\ ledger[2].category = "Transfer"

(***************************************************************************)
(* analyze.monthly_spending_by_category.                                   *)
(***************************************************************************)
MaxSpendRows == 3

\* df["is_expense"] & ~df["is_duplicate"] & ~df["category"].isin({"Transfer"})
SpendingMaskKeepsDuplicates(row) == row.is_expense /\ row.category \notin {"Transfer"}

SpendingMask(row) ==
    row.is_expense /\ ~row.is_duplicate /\ row.category \notin {"Transfer"}

\* expenses.groupby(["year_month", "category"])["abs_amount"].sum()
\* .reset_index(): one row for every pair that occurs, in the order of the
\* pairs.
SpendingGroups(df) ==
    LET expenses == {i \in 1..Len(df) : SpendingMask(df[i])} IN
    {[year_month |-> df[i].year_month,
      category |-> df[i].category,
      total_spent |->
          SumOver([k \in expenses |-> df[k].abs_amount],
                  {k \in expenses : /\ df[k].year_month = df[i].year_month
                                    /\ df[k].category = df[i].category})]
        : i \in expenses}

\* The order of sort_values(["year_month", "total_spent"], ascending=[True,
\* False]): a sort on several columns is stable, so two groups of one month
\* with equal totals stay in the order of the groupby, by category.
SpendingBefore(a, b) ==
    \/ a.year_month < b.year_month
    \/ /\ a.year_month = b.year_month
       /\ \/ a.total_spent > b.total_spent
          \/ /\ a.total_spent = b.total_spent
             /\ CategoryRank(a.category) < CategoryRank(b.category)

RECURSIVE SortedSpending(_)
SortedSpending(groups) ==
    IF groups = {} THEN <<>>
    ELSE LET first == CHOOSE g \in groups : \A h \in groups \ {g} : SpendingBefore(g, h)
         IN  <<first>> \o SortedSpending(groups \ {first})

monthly_spending_by_category(df) == SortedSpending(SpendingGroups(df))

MonthlySpendingByCategory ==
    /\ stage = "balanced"
    /\ result' = [result EXCEPT !.monthly_by_category = monthly_spending_by_category(ledger)]
    /\ stage' = "monthly_by_category"
    /\ UNCHANGED <<files, ledger, prev, std_threshold, starting_balance, categories, run, budgets>>

(***************************************************************************)
(* The category totals on their own.  The input is a ledger as             *)
(* running_balance returns it, of up to MaxSpendRows rows over two months: *)
(* expenses of two categories, a duplicate-flagged expense, a Transfer     *)
(* expense, a refund, a row of amount 0 and an Income row.                 *)
(***************************************************************************)
SpendRow(date, amount, category, is_duplicate) ==
    EnrichedRow(date, <<"a">>, amount, <<>>, category, <<"A">>, is_duplicate)

SpendRows ==
    {SpendRow(d, -a, "Food", FALSE) : d \in {0, 31}, a \in {30, 50}}
        \cup {SpendRow(0, -50, "Rent", FALSE), SpendRow(0, -50, "Food", TRUE),
              SpendRow(0, -50, "Transfer", FALSE), SpendRow(0, 50, "Food", FALSE),
              SpendRow(0, 0, "Food", FALSE), SpendRow(0, 3000, "Income", FALSE)}

InitSpend ==
    /\ \E df \in SeqsUpTo(SpendRows, MaxSpendRows) : ledger \in running_balance(df, 0)
    /\ starting_balance = 0
    /\ files = <<>>
    /\ prev = <<>>
    /\ stage = "balanced"
    /\ std_threshold = 20
    /\ categories = <<>>
    /\ result = NoViews
    /\ Standalone

NextSpend == MonthlySpendingByCategory

SpecSpend == InitSpend /\ [][NextSpend]_vars

\* The sum of abs_amount over the rows of a month and a category that are
\* expenses (amount < 0), not duplicate-flagged and not Transfer.
RECURSIVE QualifyingSpend(_, _, _)
QualifyingSpend(df, ym, category) ==
    IF df = <<>> THEN 0
    ELSE (IF /\ Head(df).year_month = ym
             /\ Head(df).category = category
             /\ Head(df).amount < 0
             /\ ~Head(df).is_duplicate
             /\ category # "Transfer"
          THEN Abs(Head(df).amount) ELSE 0)
         + QualifyingSpend(Tail(df), ym, category)

HasQualifyingSpend(df, ym, category) ==
    \E i \in 1..Len(df) :
        /\ df[i].year_month = ym
        /\ df[i].category = category
        /\ df[i].amount < 0
        /\ ~df[i].is_duplicate
        /\ category # "Transfer"

\* C12: monthly_spending_by_category holds one row for every (year_month,
\* category) with an expense row (amount < 0) that is neither
\* duplicate-flagged nor Transfer, its total_spent is the sum of abs_amount
\* over exactly those rows, and no Transfer row is in the output.
C12_SpendingByCategory ==
    stage = "monthly_by_category" =>
        LET view == result.monthly_by_category IN
        /\ \A k \in 1..Len(view) :
              /\ HasQualifyingSpend(ledger, view[k].year_month, view[k].category)
              /\ view[k].total_spent
                    = QualifyingSpend(ledger, view[k].year_month, view[k].category)
              /\ view[k].category # "Transfer"
        /\ \A i \in 1..Len(ledger) :
              HasQualifyingSpend(ledger, ledger[i].year_month, ledger[i].category) =>
                  \E k \in 1..Len(view) :
                      /\ view[k].year_month = ledger[i].year_month
                      /\ view[k].category = ledger[i].category
        /\ \A k, l \in 1..Len(view) :
              (view[k].year_month = view[l].year_month /\ view[k].category = view[l].category)
                  => k = l

\* A month with a Food expense of 50, a duplicate-flagged Food expense of 50
\* and a Transfer expense of 50: the only row of the view is Food with 50.
C12_Witness ==
    /\ stage = "monthly_by_category"
    /\ Len(ledger) = 3
    /\ \E i, j, k \in 1..3 :
          /\ ledger[i].category = "Food" /\ ledger[i].amount = -50 /\ ~ledger[i].is_duplicate
          /\ ledger[j].category = "Food" /\ ledger[j].amount = -50 /\ ledger[j].is_duplicate
          /\ ledger[k].category = "Transfer" /\ ledger[k].amount = -50
    /\ Len(result.monthly_by_category) = 1
    /\ result.monthly_by_category[1].category = "Food"
    /\ result.monthly_by_category[1].total_spent = 50

(***************************************************************************)
(* analyze.monthly_income_vs_expenses.                                     *)
(***************************************************************************)
MaxMonthRows == 3

\* df[mask].groupby("year_month")[column].sum(), the mask given as the set
\* of the positions it selects: a function from the year_months of the
\* selected rows to the sum of the column over them.
GroupSumByMonth(df, rows, column) ==
    [ym \in {df[i].year_month : i \in rows} |->
        SumOver([i \in rows |-> df[i][column]], {i \in rows : df[i].year_month = ym})]

IsInbound(row) == row.amount > 0

\* An income mask that leaves out the rows flagged as duplicates.
IsUnflaggedIncome(row) == row.category = "Income" /\ ~row.is_duplicate

IsIncome(row) == row.category = "Income"

\* An exclusion list that names no category.
ExcludeNoCats == {}

ExcludeCats == {"Transfer"}

IsCountedExpense(row) ==
    row.is_expense /\ ~row.is_duplicate /\ row.category \notin ExcludeCats

\* The sequence of the elements of a set of integers in ascending order.
RECURSIVE Ascending(_)
Ascending(S) ==
    IF S = {} THEN <<>>
    ELSE LET least == CHOOSE x \in S : \A y \in S : x <= y
         IN <<least>> \o Ascending(S \ {least})

\* The outer merge on year_month with fillna(0), the net column, and the
\* sort by year_month.  The savings_rate column, which analyze adds later,
\* holds Null.
monthly_income_vs_expenses(df) ==
    LET income == GroupSumByMonth(df, {i \in 1..Len(df) : IsIncome(df[i])}, "amount")
        expense == GroupSumByMonth(df, {i \in 1..Len(df) : IsCountedExpense(df[i])},
                                   "abs_amount")
        months == Ascending(DOMAIN income \cup DOMAIN expense)
        IncomeOf(ym) == IF ym \in DOMAIN income THEN income[ym] ELSE 0
        ExpensesOf(ym) == IF ym \in DOMAIN expense THEN expense[ym] ELSE 0
    IN  [k \in 1..Len(months) |->
            [year_month |-> months[k],
             income |-> IncomeOf(months[k]),
             expenses |-> ExpensesOf(months[k]),
             net |-> IncomeOf(months[k]) - ExpensesOf(months[k]),
             savings_rate |-> Null]]

MonthlyIncomeVsExpenses ==
    /\ stage = "monthly_by_category"
    /\ result' = [result EXCEPT !.monthly_summary = monthly_income_vs_expenses(ledger)]
    /\ stage' = "monthly_summary"
    /\ UNCHANGED <<files, ledger, prev, std_threshold, starting_balance, categories, run, budgets>>

(***************************************************************************)
(* The monthly summary on its own.  Its input is a ledger as               *)
(* running_balance returns it, of up to MaxMonthRows rows over two months: *)
(* Income rows of 3000 and of -20, inbound rows of 500 categorized Other,  *)
(* income (lower case) and Transfer, expense rows, and an Income row of    *)
(* -20 flagged as a duplicate.                                             *)
(***************************************************************************)
MonthRow(date, amount, category, is_duplicate) ==
    EnrichedRow(date, <<"a">>, amount, <<>>, category, <<"A">>, is_duplicate)

MonthRows ==
    {MonthRow(0, 3000, "Income", FALSE), MonthRow(31, 3000, "Income", FALSE),
     MonthRow(0, -20, "Income", FALSE), MonthRow(0, 500, "Other", FALSE),
     MonthRow(31, 500, "Other", FALSE), MonthRow(0, 500, "income", FALSE),
     MonthRow(0, 500, "Transfer", FALSE), MonthRow(0, -50, "Food", FALSE),
     MonthRow(31, -50, "Food", TRUE), MonthRow(0, -20, "Income", TRUE)}

InitMonth ==
    /\ \E df \in SeqsUpTo(MonthRows, MaxMonthRows) : ledger \in running_balance(df, 0)
    /\ starting_balance = 0
    /\ files = <<>>
    /\ prev = <<>>
    /\ stage = "monthly_by_category"
    /\ std_threshold = 20
    /\ categories = <<>>
    /\ result = NoViews
    /\ Standalone

NextMonth == MonthlyIncomeVsExpenses

SpecMonth == InitMonth /\ [][NextMonth]_vars

\* The sum of the amounts of the rows of a month in the Income category.
RECURSIVE IncomeAmounts(_, _)
IncomeAmounts(df, ym) ==
    IF df = <<>> THEN 0
    ELSE (IF Head(df).year_month = ym /\ Head(df).category = "Income"
          THEN Head(df).amount ELSE 0)
         + IncomeAmounts(Tail(df), ym)

\* C10: the income of a month of the summary is the sum of the amounts of
\* that month's rows whose category is exactly "Income", so an inbound row
\* of any other category adds nothing; every month with an Income row is in
\* the summary; a month of a 3000 Income row and a 500 inbound Other row has
\* income 3000.
C10_IncomeIsIncomeCategoryOnly ==
    stage = "monthly_summary" =>
        /\ \A k \in 1..Len(result.monthly_summary) :
              result.monthly_summary[k].income = IncomeAmounts(ledger, result.monthly_summary[k].year_month)
        /\ \A i \in 1..Len(ledger) :
              ledger[i].category = "Income" =>
                  \E k \in 1..Len(result.monthly_summary) : result.monthly_summary[k].year_month = ledger[i].year_month
        /\ \A k, l \in 1..Len(result.monthly_summary) :
              result.monthly_summary[k].year_month = result.monthly_summary[l].year_month => k = l

\* The example: one month holding a 3000 Income row and a 500 inbound row
\* categorized Other; its income is 3000.
C10_Witness ==
    /\ stage = "monthly_summary"
    /\ Len(ledger) = 2
    /\ \E i, j \in 1..2 :
          /\ ledger[i].category = "Income" /\ ledger[i].amount = 3000
          /\ ledger[j].category = "Other" /\ ledger[j].amount = 500
          /\ ledger[i].year_month = ledger[j].year_month
    /\ Len(result.monthly_summary) = 1
    /\ result.monthly_summary[1].income = 3000

(***************************************************************************)
(* analyze.find_recurring.                                                 *)
(*                                                                         *)
(* Here amounts are in cents.  The code holds an amount of c cents as the  *)
(* binary64 number nearest to c / 100 (float(cleaned) in _parse_amount)    *)
(* and compares the binary64 difference of two amounts with the tolerance, *)
(* so the rounding error of each amount is part of the comparison.  For    *)
(* 100 * 2^j <= 128 * c < 100 * 2^(j + 1) the number nearest to c / 100 is *)
(* m * 2^(j - 59) for an integer m, and its error m * 2^(j - 59) - c / 100 *)
(* is r * 2^j / (100 * 2^59), where r = 100 * m - c * 2^(59 - j) is the    *)
(* residue of -c * 2^(59 - j) modulo 100 of least absolute value.          *)
(***************************************************************************)
MaxRecRows == 3

MinOccurrences == 2
ToleranceDays == 5
AmountTolerance == 100
Targets == {7, 14, 30, 31, 28, 29}

RECURSIVE Pow2(_)
Pow2(n) == IF n = 0 THEN 1 ELSE 2 * Pow2(n - 1)

RECURSIVE Pow2Mod100(_)
Pow2Mod100(n) == IF n = 0 THEN 1 ELSE (2 * Pow2Mod100(n - 1)) % 100

\* The j with 100 * 2^j <= 128 * c < 100 * 2^(j + 1), for c >= 1.
RECURSIVE BinadeFrom(_, _)
BinadeFrom(c, j) == IF 100 * Pow2(j + 1) <= 128 * c THEN BinadeFrom(c, j + 1) ELSE j

Binade(c) == BinadeFrom(c, 0)

\* The error of the binary64 number nearest to c / 100, in units of
\* 1 / (100 * 2^59).
Binary64Error(c) ==
    IF c = 0 THEN 0
    ELSE LET j == Binade(c)
             t == ((c % 100) * Pow2Mod100(59 - j)) % 100
             r == IF t < 50 THEN -t ELSE 100 - t
         IN  r * Pow2(j)

\* amounts.max() - amounts.min() > amount_tolerance for the default
\* tolerance 1.0.  The binary64 difference exceeds 1.0 exactly when the
\* difference of the two binary64 amounts exceeds 1 + 2^-53 (the midpoint
\* of 1.0 and the next number rounds to 1.0), and 2^-53 is 6400 units.
ExceedsTolerance(max, min) ==
    \/ max - min > AmountTolerance
    \/ /\ max - min = AmountTolerance
       /\ Binary64Error(max) - Binary64Error(min) > 6400

\* The rows, as positions, of the group of a merchant in df[df.is_expense].
ExpenseGroup(df, merchant) ==
    {i \in 1..Len(df) : df[i].is_expense /\ df[i].merchant = merchant}

\* group.sort_values("date")["date"]: the dates of the group in ascending
\* order.
RECURSIVE SortedDates(_, _)
SortedDates(df, group) ==
    IF group = {} THEN <<>>
    ELSE LET first == CHOOSE i \in group : \A k \in group : df[i].date <= df[k].date
         IN  <<df[first].date>> \o SortedDates(df, group \ {first})

Intervals(dates) == [i \in 1..Len(dates) - 1 |-> dates[i + 1] - dates[i]]

RECURSIVE SumSeq(_)
SumSeq(s) == IF s = <<>> THEN 0 ELSE Head(s) + SumSeq(Tail(s))

\* any(abs(avg_interval - target) <= tolerance_days for target in ...), the
\* mean being SumSeq(intervals) / Len(intervals).
IsRecurring(intervals) ==
    \E target \in Targets :
        Abs(SumSeq(intervals) - target * Len(intervals)) <= ToleranceDays * Len(intervals)

MaxOf(S) == CHOOSE x \in S : \A y \in S : y <= x

MinOf(S) == CHOOSE x \in S : \A y \in S : x <= y

\* The group passes the three tests of the loop.
Reported(df, group) ==
    LET amounts == {df[i].abs_amount : i \in group} IN
    /\ ~(Cardinality(group) < MinOccurrences)
    /\ ~ExceedsTolerance(MaxOf(amounts), MinOf(amounts))
    /\ ~(Cardinality(group) < 2)
    /\ IsRecurring(Intervals(SortedDates(df, group)))

\* round(num / den, digits) for a quotient of naturals, as an integer number
\* of 10^-digits (scale = 10^digits): the nearest, and the even one of two
\* equally near.
RoundQuotient(num, den, scale) ==
    LET q == (num * scale) \div den
        twice == 2 * ((num * scale) % den)
    IN  IF twice < den THEN q
        ELSE IF twice > den THEN q + 1
        ELSE IF q % 2 = 0 THEN q ELSE q + 1

\* round(float(amounts.mean()), 2), in cents.  When the mean of the decimal
\* amounts is midway between two cents the binary64 mean may lie on either
\* side: both cents are outcomes.
AvgAmounts(df, group) ==
    LET total == SumOver([i \in group |-> df[i].abs_amount], group)
        n == Cardinality(group)
    IN  IF 2 * (total % n) = n THEN {total \div n, total \div n + 1}
        ELSE {RoundQuotient(total, n, 1)}

\* group["category"].mode().iloc[0]: the most frequent category, the first
\* in sorted order of the most frequent ones.
ModeCategory(df, group) ==
    LET Count(c) == Cardinality({i \in group : df[i].category = c})
        modes == {k \in 1..Len(SortedCategoryNames) :
                     /\ Count(SortedCategoryNames[k]) > 0
                     /\ \A i \in group : Count(df[i].category) <= Count(SortedCategoryNames[k])}
    IN  SortedCategoryNames[MinOf(modes)]

\* The rows find_recurring appends for a merchant: one for every outcome of
\* avg_amount.  interval_days is in tenths of a day.
RecurringRows(df, merchant) ==
    LET group == ExpenseGroup(df, merchant)
        intervals == Intervals(SortedDates(df, group))
    IN  {[merchant |-> merchant,
          category |-> ModeCategory(df, group),
          avg_amount |-> avg,
          occurrences |-> Cardinality(group),
          interval_days |-> RoundQuotient(SumSeq(intervals), Len(intervals), 10)]
            : avg \in AvgAmounts(df, group)}

\* The results: one row for every merchant that passes, sorted by avg_amount
\* descending (rows of equal avg_amount in any order).
find_recurring(df) ==
    LET merchants == {df[i].merchant : i \in {k \in 1..Len(df) : df[k].is_expense}}
        passing == {m \in merchants : Reported(df, ExpenseGroup(df, m))}
    IN  {view \in SeqsUpTo(UNION {RecurringRows(df, m) : m \in passing}, Cardinality(passing)) :
            /\ Len(view) = Cardinality(passing)
            /\ \A m \in passing : \E k \in 1..Len(view) : view[k].merchant = m
            /\ \A k \in 1..Len(view) - 1 : view[k].avg_amount >= view[k + 1].avg_amount}

FindRecurring ==
    /\ stage = "anomalies_view"
    /\ \E view \in find_recurring(ledger) : result' = [result EXCEPT !.recurring = view]
    /\ stage' = "recurring"
    /\ UNCHANGED <<files, ledger, prev, std_threshold, starting_balance, categories, run, budgets>>

(***************************************************************************)
(* The recurrence detector on its own.  Its input is a ledger as           *)
(* running_balance returns it (sorted by date), of up to MaxRecRows rows:  *)
(* a subscription of 9.99, 10.50 or 14.99 every thirty days, charges of    *)
(* 1.14 and 2.14, charges of 5.00 at gaps around the accepted intervals, a *)
(* refund, a duplicate-flagged charge and a charge categorized Transfer.   *)
(***************************************************************************)
RecRow(merchant, date, amount, category, is_duplicate) ==
    EnrichedRow(date, merchant, amount, <<>>, category, merchant, is_duplicate)

RecRows ==
    {RecRow(<<"N">>, d, -a, "Entertainment", FALSE) : d \in {0, 30, 60}, a \in {999, 1050, 1499}}
        \cup {RecRow(<<"G">>, d, -a, "Health", FALSE) : d \in {0, 30}, a \in {114, 214}}
        \cup {RecRow(<<"B">>, d, -500, "Bills", FALSE) : d \in {0, 1, 20, 23, 37}}
        \cup {RecRow(<<"N">>, 30, 999, "Income", FALSE),
              RecRow(<<"N">>, 30, -999, "Entertainment", TRUE),
              RecRow(<<"N">>, 60, -999, "Transfer", FALSE)}

InitRec ==
    /\ \E df \in SeqsUpTo(RecRows, MaxRecRows) :
          /\ IsSortedByDate(df)
          /\ ledger = with_running_balance(df, 0)
    /\ starting_balance = 0
    /\ files = <<>>
    /\ prev = <<>>
    /\ stage = "anomalies_view"
    /\ std_threshold = 20
    /\ categories = <<>>
    /\ result = NoViews
    /\ Standalone

NextRec == FindRecurring

SpecRec == InitRec /\ [][NextRec]_vars

(***************************************************************************)
(* What the claim about find_recurring speaks of.                          *)
(***************************************************************************)
ExpenseRowsOf(merchant) ==
    {i \in 1..Len(ledger) : ledger[i].amount < 0 /\ ledger[i].merchant = merchant}

InOutput(merchant) == \E k \in 1..Len(result.recurring) : result.recurring[k].merchant = merchant

\* (a) and (c) of the contract: at least min_occurrences expense rows, and
\* the mean of the consecutive day gaps, (last - first) / (n - 1), within
\* tolerance_days of a canonical period.
OftenAndPeriodic(rows) ==
    LET n == Cardinality(rows)
        first == MinOf({ledger[i].date : i \in rows})
        last == MaxOf({ledger[i].date : i \in rows})
    IN  /\ n >= 2
        /\ \E period \in {7, 14, 28, 29, 30, 31} :
              /\ (last - first) - period * (n - 1) <= 5 * (n - 1)
              /\ period * (n - 1) - (last - first) <= 5 * (n - 1)

Spread(rows) ==
    MaxOf({Abs(ledger[i].amount) : i \in rows}) - MinOf({Abs(ledger[i].amount) : i \in rows})

\* C8: a merchant is in the output of find_recurring if and only if its
\* expense rows number at least 2, have max(abs_amount) - min(abs_amount)
\* of at most 1.00, and have a mean day gap within 5 days of one of 7, 14,
\* 28, 29, 30, 31; a merchant with a single expense row is never reported.
C8_RecurringIff ==
    stage = "recurring" =>
        \A i \in 1..Len(ledger) :
            LET rows == ExpenseRowsOf(ledger[i].merchant) IN
            /\ InOutput(ledger[i].merchant)
                  <=> (rows # {} /\ OftenAndPeriodic(rows) /\ Spread(rows) <= 100)
            /\ Cardinality(rows) = 1 => ~InOutput(ledger[i].merchant)

\* C8, as the code computes it: the same, with the amounts differing by
\* exactly 1.00 split by the binary64 values of the two amounts.
C8_RecurringIffBinary ==
    stage = "recurring" =>
        \A i \in 1..Len(ledger) :
            LET rows == ExpenseRowsOf(ledger[i].merchant)
                max == MaxOf({Abs(ledger[k].amount) : k \in rows})
                min == MinOf({Abs(ledger[k].amount) : k \in rows})
            IN
            /\ InOutput(ledger[i].merchant)
                  <=> /\ rows # {}
                      /\ OftenAndPeriodic(rows)
                      /\ \/ Spread(rows) < 100
                         \/ /\ Spread(rows) = 100
                            /\ Binary64Error(max) - Binary64Error(min) <= 6400
            /\ Cardinality(rows) = 1 => ~InOutput(ledger[i].merchant)
            /\ \A k \in 1..Len(result.recurring) :
                  result.recurring[k].merchant = ledger[i].merchant =>
                      /\ result.recurring[k].occurrences = Cardinality(rows)
                      /\ 10 * result.recurring[k].interval_days * (Cardinality(rows) - 1)
                            - 100 * (MaxOf({ledger[j].date : j \in rows})
                                        - MinOf({ledger[j].date : j \in rows}))
                            \in -5 * (Cardinality(rows) - 1)..5 * (Cardinality(rows) - 1)

\* The example: charges of 9.99, 9.99 and 10.50 thirty days apart are
\* reported with interval_days 30.
C8_Witness ==
    /\ stage = "recurring"
    /\ [i \in 1..Len(ledger) |-> ledger[i].amount] = <<-999, -999, -1050>>
    /\ [i \in 1..Len(ledger) |-> ledger[i].date] = <<0, 30, 60>>
    /\ \A i \in 1..Len(ledger) : ledger[i].merchant = <<"N">>
    /\ Len(result.recurring) = 1
    /\ result.recurring[1].merchant = <<"N">>
    /\ result.recurring[1].interval_days = 300
    /\ result.recurring[1].occurrences = 3

(***************************************************************************)
(* The views analyze computes after the monthly tables: the anomalies, the *)
(* merchants, the days of the week, the month-over-month comparison and    *)
(* the budgets.  A view whose order or rounding the code leaves to the     *)
(* sort or to the binary value is the set of its outcomes.                 *)
(***************************************************************************)
TopN == 12

\* A quotient that is not rounded: its thousandths, cut off.
TruncatedQuotients(num, den) ==
    {(IF (num < 0) = (den < 0) THEN 1 ELSE -1) * ((Abs(num) * 1000) \div Abs(den))}

\* round(num / den, 3) in thousandths for integers num and den # 0.  When
\* the quotient is midway between two thousandths, the binary quotient that
\* is rounded may lie on either side: both thousandths are outcomes.
RoundedQuotients(num, den) ==
    LET sign == IF (num < 0) = (den < 0) THEN 1 ELSE -1
        q == (Abs(num) * 1000) \div Abs(den)
        twice == 2 * ((Abs(num) * 1000) % Abs(den))
    IN  IF twice < Abs(den) THEN {sign * q}
        ELSE IF twice > Abs(den) THEN {sign * (q + 1)}
        ELSE {sign * q, sign * (q + 1)}

\* df[df["is_anomaly"]].sort_values("abs_amount", ascending=False)
anomalies_of(df) ==
    LET flagged == SelectSeq(df, LAMBDA row : row.is_anomaly) IN
    {[i \in 1..Len(flagged) |-> flagged[p[i]]] :
        p \in {q \in Permutations1(Len(flagged)) :
                 \A i \in 1..Len(flagged) - 1 :
                     flagged[q[i]].abs_amount >= flagged[q[i + 1]].abs_amount}}

AnomaliesView ==
    /\ stage = "monthly_summary"
    /\ \E view \in anomalies_of(ledger) : result' = [result EXCEPT !.anomalies = view]
    /\ stage' = "anomalies_view"
    /\ UNCHANGED <<files, ledger, prev, std_threshold, starting_balance, categories, run, budgets>>

\* The rows the merchants, days, months and budgets are computed from.
Expenses(df) == {i \in 1..Len(df) : SpendingMask(df[i])}

\* The outcomes of the row of one merchant.
MerchantRows(df, merchant) ==
    LET group == {i \in Expenses(df) : df[i].merchant = merchant} IN
    {[merchant |-> merchant,
      total_spent |-> GroupSum(df, group),
      transactions |-> Cardinality(group),
      avg_amount |-> avg,
      category |-> ModeCategory(df, group)] : avg \in AvgAmounts(df, group)}

\* One row for every merchant, by total_spent descending, the first n.
top_merchants(df, n) ==
    LET merchants == {df[i].merchant : i \in Expenses(df)}
        choices == {c \in [merchants -> UNION {MerchantRows(df, m) : m \in merchants}] :
                       \A m \in merchants : c[m] \in MerchantRows(df, m)}
        Shorter(s) == SubSeq(s, 1, IF Len(s) < n THEN Len(s) ELSE n)
    IN  UNION {{Shorter(s) :
                   s \in {t \in [1..Cardinality(merchants) -> {c[m] : m \in merchants}] :
                            /\ \A i, j \in 1..Cardinality(merchants) : i # j => t[i] # t[j]
                            /\ \A i \in 1..Cardinality(merchants) - 1 :
                                   t[i].total_spent >= t[i + 1].total_spent}}
               : c \in choices}

TopMerchants ==
    /\ stage = "recurring"
    /\ \E view \in top_merchants(ledger, TopN) :
          result' = [result EXCEPT !.top_merchants = view]
    /\ stage' = "top_merchants"
    /\ UNCHANGED <<files, ledger, prev, std_threshold, starting_balance, categories, run, budgets>>

\* The rows of the days from day on, Monday first.
RECURSIVE DowFrom(_, _)
DowFrom(df, day) ==
    IF day > 6 THEN {<<>>}
    ELSE LET group == {i \in Expenses(df) : df[i].day_of_week = day} IN
         IF group = {} THEN DowFrom(df, day + 1)
         ELSE {<<[day_name |-> DayNames[day + 1],
                  total_spent |-> GroupSum(df, group),
                  avg_per_txn |-> avg,
                  transactions |-> Cardinality(group)]>> \o rest :
                  avg \in AvgAmounts(df, group), rest \in DowFrom(df, day + 1)}

spending_by_dow(df) == DowFrom(df, 0)

SpendingByDow ==
    /\ stage = "top_merchants"
    /\ \E view \in spending_by_dow(ledger) :
          result' = [result EXCEPT !.spending_by_dow = view]
    /\ stage' = "spending_by_dow"
    /\ UNCHANGED <<files, ledger, prev, std_threshold, starting_balance, categories, run, budgets>>

\* The sum of abs_amount of a category in a month.
SpentIn(df, month, category) ==
    GroupSum(df, {i \in Expenses(df) :
                     df[i].year_month = month /\ df[i].category = category})

\* The comparison of the last two months with expenses: <<>> for the empty
\* dict, else the dict in a tuple.  sorted() runs over a set of names, so
\* categories of equal current spend come in any order.
category_mom(df) ==
    LET months == {df[i].year_month : i \in Expenses(df)} IN
    IF Cardinality(months) < 2 THEN {<<>>}
    ELSE LET curr_lbl == MaxOf(months)
             prev_lbl == MaxOf(months \ {curr_lbl})
             all_cats == {df[i].category :
                             i \in {k \in Expenses(df) :
                                       df[k].year_month \in {curr_lbl, prev_lbl}}}
         IN  {<<[current_label |-> curr_lbl,
                 prev_label |-> prev_lbl,
                 categories |-> order,
                 current |-> [k \in 1..Len(order) |-> SpentIn(df, curr_lbl, order[k])],
                 previous |-> [k \in 1..Len(order) |-> SpentIn(df, prev_lbl, order[k])]]>> :
                 order \in {s \in [1..Cardinality(all_cats) -> all_cats] :
                              /\ \A i, j \in 1..Cardinality(all_cats) : i # j => s[i] # s[j]
                              /\ \A i \in 1..Cardinality(all_cats) - 1 :
                                     SpentIn(df, curr_lbl, s[i]) >= SpentIn(df, curr_lbl, s[i + 1])}}

CategoryMom ==
    /\ stage = "spending_by_dow"
    /\ \E view \in category_mom(ledger) :
          result' = [result EXCEPT !.mom_comparison = view]
    /\ stage' = "mom_comparison"
    /\ UNCHANGED <<files, ledger, prev, std_threshold, starting_balance, categories, run, budgets>>

\* sorted(rows, key=-pct_used): the sort is stable, rows of equal pct_used
\* stay in the order of the budgets.
RECURSIVE SortedByPctUsed(_)
SortedByPctUsed(rows) ==
    IF rows = <<>> THEN <<>>
    ELSE LET top == CHOOSE i \in 1..Len(rows) :
                        /\ \A j \in 1..Len(rows) : rows[j].pct_used <= rows[i].pct_used
                        /\ \A j \in 1..(i - 1) : rows[j].pct_used < rows[i].pct_used
         IN  <<rows[top]>>
             \o SortedByPctUsed(SubSeq(rows, 1, top - 1) \o SubSeq(rows, top + 1, Len(rows)))

\* The rows of the budgets from the k-th on, in the order of the budgets.
\* pct_used is in tenths of a percent.
RECURSIVE BudgetRowsFrom(_, _, _, _)
BudgetRowsFrom(df, limits, month, k) ==
    IF k > Len(limits) THEN {<<>>}
    ELSE LET spent == SpentIn(df, month, limits[k].category)
             pcts == IF limits[k].limit > 0
                     THEN RoundedQuotients(spent, limits[k].limit)
                     ELSE {0}
         IN  {<<[category |-> limits[k].category,
                 budget |-> limits[k].limit,
                 spent |-> spent,
                 pct_used |-> pct]>> \o rest :
                 pct \in pcts, rest \in BudgetRowsFrom(df, limits, month, k + 1)}

budget_status(df, limits) ==
    IF limits = <<>> \/ Expenses(df) = {} THEN {<<>>}
    ELSE LET curr_month == MaxOf({df[i].year_month : i \in Expenses(df)}) IN
         {SortedByPctUsed(rows) : rows \in BudgetRowsFrom(df, limits, curr_month, 1)}

BudgetStatus ==
    /\ stage = "mom_comparison"
    /\ \E view \in budget_status(ledger, budgets) :
          result' = [result EXCEPT !.budget_status = view]
    /\ stage' = "budget_status"
    /\ UNCHANGED <<files, ledger, prev, std_threshold, starting_balance, categories, run, budgets>>

(***************************************************************************)
(* analyze: the savings_rate column of the monthly summary,                *)
(* ((income - expenses) / income.replace(0, NaN)).round(3).fillna(0).      *)
(* The rate is held in thousandths.                                        *)
(***************************************************************************)
\* The outcomes of the savings_rate of one row of the summary.
SavingsRates(row) ==
    IF row.income = 0 THEN {0}
    ELSE RoundedQuotients(row.income - row.expenses, row.income)

RECURSIVE WithSavingsRate(_)
WithSavingsRate(view) ==
    IF view = <<>> THEN {<<>>}
    ELSE {<<[Head(view) EXCEPT !.savings_rate = <<rate>>]>> \o rest :
             rate \in SavingsRates(Head(view)), rest \in WithSavingsRate(Tail(view))}

SavingsRate ==
    /\ stage = "budget_status"
    /\ \/ /\ result.monthly_summary = <<>>
          /\ result' = result
       \/ /\ result.monthly_summary # <<>>
          /\ \E view \in WithSavingsRate(result.monthly_summary) :
                result' = [result EXCEPT !.monthly_summary = view]
    /\ stage' = "analyzed"
    /\ steps' = Append(steps, "analyze")
    /\ UNCHANGED <<files, ledger, prev, std_threshold, starting_balance, categories, budgets,
                   is_dir, config_exists, start, end, exit_code, output, warnings, formats, curr_spend, message>>

(***************************************************************************)
(* transform.clean_merchant_name.  _NOISE_RE is the alternation            *)
(*   \s*#\d+ | \s*\d{4,} | \s+\d{1,3}$ | \*+\S* | \s{2,}                   *)
(* and re.sub replaces, from left to right, every match by one space; at a *)
(* position the first alternative that matches is taken.                   *)
(***************************************************************************)
RECURSIVE RunLength(_, _, _)
\* The number of consecutive characters of the set chars from position p on.
RunLength(s, p, chars) ==
    IF p <= Len(s) /\ s[p] \in chars THEN 1 + RunLength(s, p + 1, chars) ELSE 0

DigitChars == {Digits[i] : i \in 1..Len(Digits)}

RECURSIVE NonSpaceRunLength(_, _)
NonSpaceRunLength(s, p) ==
    IF p <= Len(s) /\ s[p] \notin Whitespace THEN 1 + NonSpaceRunLength(s, p + 1) ELSE 0

\* The length of the match of _NOISE_RE at position p, 0 when none matches.
NoiseMatch(s, p) ==
    LET spaces == RunLength(s, p, Whitespace)
        digits == RunLength(s, p + spaces, DigitChars)
        stars == RunLength(s, p, {"*"})
    IN  IF /\ p + spaces <= Len(s)
           /\ s[p + spaces] = "#"
           /\ RunLength(s, p + spaces + 1, DigitChars) >= 1
        THEN spaces + 1 + RunLength(s, p + spaces + 1, DigitChars)
        ELSE IF digits >= 4 THEN spaces + digits
        ELSE IF /\ spaces >= 1
                /\ digits \in 1..3
                /\ p + spaces + digits - 1 = Len(s)
        THEN spaces + digits
        ELSE IF stars >= 1 THEN stars + NonSpaceRunLength(s, p + stars)
        ELSE IF spaces >= 2 THEN spaces
        ELSE 0

\* _NOISE_RE.sub(" ", name), from position p on.
RECURSIVE NoiseSub(_, _)
NoiseSub(s, p) ==
    IF p > Len(s) THEN <<>>
    ELSE IF NoiseMatch(s, p) > 0 THEN <<" ">> \o NoiseSub(s, p + NoiseMatch(s, p))
    ELSE <<s[p]>> \o NoiseSub(s, p + 1)

\* re.sub(r"\s{2,}", " ", name), from position p on.
RECURSIVE CollapseSpaces(_, _)
CollapseSpaces(s, p) ==
    IF p > Len(s) THEN <<>>
    ELSE IF RunLength(s, p, Whitespace) >= 2
         THEN <<" ">> \o CollapseSpaces(s, p + RunLength(s, p, Whitespace))
    ELSE <<s[p]>> \o CollapseSpaces(s, p + 1)

IsLetter(c) ==
    \E i \in 1..Len(LowerLetters) : LowerLetters[i] = c \/ UpperLetters[i] = c

\* str.title(): a letter is upper case after a character that is not a
\* letter (or at the start) and lower case after a letter.
Title(s) ==
    [i \in 1..Len(s) |->
        IF i > 1 /\ IsLetter(s[i - 1]) THEN LowerChar(s[i]) ELSE UpperChar(s[i])]

clean_merchant_name(name) ==
    Title(Strip(CollapseSpaces(NoiseSub(Strip(name), 1), 1)))

(***************************************************************************)
(* transform.add_derived_fields.                                           *)
(***************************************************************************)
\* A conversion that turns a text nothing parses into the first day.
CoerceDateToEpoch(date) == IF date = Unparseable THEN 0 ELSE date

\* pd.to_datetime(df["date"], errors="coerce")
CoerceDate(date) == IF date = Unparseable THEN NaT ELSE date

\* df.dropna(subset=["date"])
HasDate(row) == row.date # NaT

\* An enrichment that cleans the description in place.
WithCleanedDescription(row) ==
    [row EXCEPT !.description = clean_merchant_name(row.description),
                !.merchant = clean_merchant_name(row.description)]

\* df["merchant"] = df["description"].apply(clean_merchant_name)
WithMerchant(row) == [row EXCEPT !.merchant = clean_merchant_name(row.description)]

add_derived_fields(df) ==
    LET coerced == [i \in 1..Len(df) |-> [df[i] EXCEPT !.date = CoerceDate(df[i].date)]]
        kept == SelectSeq(coerced, HasDate)
    IN  [i \in 1..Len(kept) |-> WithDerivedFields(WithMerchant(kept[i]))]

AddDerivedFields ==
    /\ stage = "categorized"
    /\ ledger' = add_derived_fields(ledger)
    /\ prev' = ledger
    /\ stage' = "derived"
    /\ UNCHANGED <<files, std_threshold, starting_balance, categories, result, run, budgets>>

(***************************************************************************)
(* main.filter_by_date_range and step 3 of main.  year_month is compared   *)
(* as text, the way pandas compares the str column with the bound.         *)
(***************************************************************************)
MaxFilterRows == 4

\* The place of a character in the order of code points.
CharRank(c) ==
    IF c = "-" THEN 0 ELSE 1 + DigitValue(c)

\* a <= b for two texts, lexicographically
RECURSIVE TextLeq(_, _)
TextLeq(a, b) ==
    IF a = <<>> THEN TRUE
    ELSE IF b = <<>> THEN FALSE
    ELSE IF Head(a) = Head(b) THEN TextLeq(Tail(a), Tail(b))
    ELSE CharRank(Head(a)) < CharRank(Head(b))

\* strftime("%Y-%m"): the year in four digits, a dash, the month in two
YearMonthText(ym) ==
    LET y == ym \div 100
        m == ym % 100
    IN <<Digits[((y \div 1000) % 10) + 1], Digits[((y \div 100) % 10) + 1],
         Digits[((y \div 10) % 10) + 1], Digits[(y % 10) + 1], "-",
         Digits[(m \div 10) + 1], Digits[(m % 10) + 1]>>

\* A comparison that leaves the bound's own month out.
Beyond(low, high) == ~TextLeq(high, low)

\* low <= high
Within(low, high) == TextLeq(low, high)

\* A filter that keeps every row.
keep_every_row(df, from, to) == df

filter_by_date_range(df, from, to) ==
    LET lower == IF from # <<>>
                 THEN SelectSeq(df, LAMBDA row : Within(from, YearMonthText(row.year_month)))
                 ELSE df
    IN IF to # <<>>
       THEN SelectSeq(lower, LAMBDA row : Within(YearMonthText(row.year_month), to))
       ELSE lower

\* Step 3 of main: the filter runs when a bound is given, and an empty
\* result ends the run.
FilterByDateRange ==
    /\ stage = "transformed"
    /\ prev' = ledger
    /\ IF start # <<>> \/ end # <<>>
       THEN /\ ledger' = filter_by_date_range(ledger, start, end)
            /\ IF ledger' = <<>>
               THEN /\ stage' = "failed"
                    /\ exit_code' = <<1>>
                    /\ message' = "No transactions in the specified date range."
               ELSE /\ stage' = "filtered"
                    /\ UNCHANGED <<exit_code, message>>
       ELSE /\ stage' = "filtered"
            /\ UNCHANGED <<ledger, exit_code, message>>
    /\ UNCHANGED <<files, std_threshold, starting_balance, categories, result, budgets,
                   is_dir, config_exists, start, end, steps, output, warnings, formats, curr_spend>>

\* A bound of the command line, with the month it names.
FilterBounds ==
    {[text |-> <<>>, given |-> FALSE, ym |-> 0],
     [text |-> <<"2", "0", "2", "4", "-", "0", "1">>, given |-> TRUE, ym |-> 202401],
     [text |-> <<"2", "0", "2", "4", "-", "0", "2">>, given |-> TRUE, ym |-> 202402],
     [text |-> <<"2", "0", "2", "4", "-", "0", "3">>, given |-> TRUE, ym |-> 202403],
     [text |-> <<"2", "0", "2", "4", "-", "0", "5">>, given |-> TRUE, ym |-> 202405]}

\* The first days of January to April 2024.
FilterDays == {0, 31, 60, 91}

FilterRow(date) == EnrichedRow(date, <<"a">>, -500, Null, "Food", <<"A">>, FALSE)

FilterLedgers ==
    {df \in SeqsUpTo({FilterRow(d) : d \in FilterDays}, MaxFilterRows) :
        df # <<>> /\ IsSortedByDate(df)}

InitFilter ==
    /\ files = <<>>
    /\ ledger \in FilterLedgers
    /\ prev = <<>>
    /\ stage = "transformed"
    /\ std_threshold = 20
    /\ starting_balance = 0
    /\ categories = <<>>
    /\ result = NoViews
    /\ is_dir = TRUE
    /\ config_exists = TRUE
    /\ start \in {b.text : b \in FilterBounds}
    /\ end \in {b.text : b \in FilterBounds}
    /\ exit_code = Null
    /\ steps = <<"ingest", "transform">>
    /\ output = {}
    /\ warnings = <<>>
    /\ formats = <<>>
    /\ curr_spend = Null
    /\ message = ""
    /\ budgets = <<>>

NextFilter == FilterByDateRange

SpecFilter == InitFilter /\ [][NextFilter]_vars

\* The rows of df whose month lies between two bounds, by the calendar.
RetainedRows(df, low, high) ==
    SelectSeq(df, LAMBDA row :
        /\ low.given => low.ym <= row.year_month
        /\ high.given => row.year_month <= high.ym)

MonthsOf(df) == {df[i].year_month : i \in 1..Len(df)}

\* C19: after the filter the ledger holds, in their order, exactly the rows
\* of its input whose month is not before start and not after end, a bound
\* that is not given leaving its side open; with start 2024-02 and end
\* 2024-03 the rows of February and March stay and those of January and
\* April go.
C19_FilterInclusive ==
    (stage # "transformed") =>
        /\ \A low, high \in FilterBounds :
               (start = low.text /\ end = high.text) =>
                   ledger = RetainedRows(prev, low, high)
        /\ (start = <<"2", "0", "2", "4", "-", "0", "2">> /\ end = <<"2", "0", "2", "4", "-", "0", "3">>) =>
               MonthsOf(ledger) = MonthsOf(prev) \cap {202402, 202403}

C19_Witness ==
    /\ stage = "filtered"
    /\ start = <<"2", "0", "2", "4", "-", "0", "2">>
    /\ end = <<"2", "0", "2", "4", "-", "0", "3">>
    /\ MonthsOf(prev) = {202401, 202402, 202403, 202404}
    /\ MonthsOf(ledger) = {202402, 202403}
    /\ Len(ledger) = 2

(***************************************************************************)
(* export.export and step 4 of main.  The files are written one after the  *)
(* other; a write the system refuses raises, main prints the error and     *)
(* returns 1 with the files written so far left in place.                  *)
(***************************************************************************)
ExportFiles ==
    <<"transactions_clean.csv", "monthly_summary.csv", "monthly_by_category.csv",
      "anomalies.csv", "recurring.csv", "top_merchants.csv", "dashboard.html">>

\* export._current_month_spend: the dict, in a tuple.
current_month_spend(transactions) ==
    IF transactions = <<>> THEN <<<<>>>>
    ELSE LET curr == MaxOf({transactions[i].year_month : i \in 1..Len(transactions)})
             exp == {i \in 1..Len(transactions) :
                        /\ transactions[i].year_month = curr
                        /\ SpendingMask(transactions[i])}
         IN  <<[c \in {transactions[i].category : i \in exp} |->
                  GroupSum(transactions, {i \in exp : transactions[i].category = c})]>>

Export ==
    /\ stage = "analyzed"
    /\ \E written \in 0..Len(ExportFiles) :
          /\ output' = {ExportFiles[k] : k \in 1..written}
          /\ curr_spend' = IF written = Len(ExportFiles)
                           THEN current_month_spend(ledger) ELSE curr_spend
          /\ IF written = Len(ExportFiles)
             THEN /\ stage' = "done"
                  /\ exit_code' = <<0>>
                  /\ steps' = Append(steps, "export")
                  /\ message' = message
             ELSE /\ stage' = "failed"
                  /\ exit_code' = <<1>>
                  /\ steps' = steps
                  /\ message' = "Error during export"
    /\ UNCHANGED <<files, ledger, prev, std_threshold, starting_balance, categories, result,
                   budgets, is_dir, config_exists, start, end, warnings, formats>>

(***************************************************************************)
(* main from the command line to the exit code, over a directory with at   *)
(* most one Bank of America export.                                        *)
(***************************************************************************)
MaxMainRows == 2

MainRules ==
    <<[name |-> "Food", keywords |-> <<<<"a">>>>],
      [name |-> "Income", keywords |-> <<<<"b">>>>]>>

MainBudgets == <<[category |-> "Food", limit |-> 300]>>

MainRows ==
    {BofaRow(0, <<"a">>, <<"-", "5">>), BofaRow(30, <<"a">>, <<"-", "3">>),
     BofaRow(31, <<"a">>, <<"-", "3">>),
     BofaRow(31, <<"b">>, <<"7">>), BofaRow(Unparseable, <<"a">>, <<"-", "5">>)}

MainDirectories ==
    {<<>>} \cup {<<[name |-> "a.csv", header |-> BofaHeader, rows |-> r]>> :
                    r \in SeqsUpTo(MainRows, MaxMainRows)}

InitMain ==
    /\ files \in MainDirectories
    /\ is_dir \in BOOLEAN
    /\ config_exists \in BOOLEAN
    /\ start \in {<<>>, <<"2", "0", "2", "4", "-", "0", "2">>}
    /\ end \in {<<>>, <<"2", "0", "2", "4", "-", "0", "1">>}
    /\ categories = MainRules
    /\ budgets = MainBudgets
    /\ ledger = <<>>
    /\ prev = <<>>
    /\ stage = "start"
    /\ std_threshold = 20
    /\ starting_balance \in {0, 1000}
    /\ result = NoViews
    /\ exit_code = Null
    /\ steps = <<>>
    /\ output = {}
    /\ warnings = <<>>
    /\ formats = <<>>
    /\ curr_spend = Null
    /\ message = ""

NextMain ==
    \/ LoadDirectory
    \/ Categorize
    \/ AddDerivedFields
    \/ FlagDuplicates
    \/ FilterByDateRange
    \/ FlagAnomalies
    \/ RunningBalance
    \/ MonthlySpendingByCategory
    \/ MonthlyIncomeVsExpenses
    \/ AnomaliesView
    \/ FindRecurring
    \/ TopMerchants
    \/ SpendingByDow
    \/ CategoryMom
    \/ BudgetStatus
    \/ SavingsRate
    \/ Export

SpecMain == InitMain /\ [][NextMain]_vars

\* load_directory has nothing to return.
IngestionFails == ~is_dir \/ files = <<>> \/ \A i \in 1..Len(files) : LoadRaises(files[i])

StepsSoFar == {steps[k] : k \in 1..Len(steps)}

\* C13: a run whose ingestion fails, whose rule file is missing or whose
\* date filter leaves no row ends with exit code 1, and then nothing has
\* been analyzed, nothing is written and no step follows; exit code 0 is
\* only given after ingest, transform, analyze and export, in that order.
C13_ExitCodes ==
    /\ (stage # "start" /\ IngestionFails) => (stage = "failed" /\ exit_code = <<1>>)
    /\ (stage \notin {"start", "ingested"} /\ ~config_exists) =>
           (stage = "failed" /\ exit_code = <<1>>)
    /\ ("transform" \in StepsSoFar /\ stage # "transformed" /\ ledger = <<>>) =>
           (stage = "failed" /\ exit_code = <<1>>)
    /\ (exit_code = <<1>> /\ message # "Error during export") =>
           /\ output = {}
           /\ result = NoViews
           /\ StepsSoFar \cap {"analyze", "export"} = {}
    /\ (stage = "failed") <=> (exit_code = <<1>>)
    /\ (stage = "failed") => ~ENABLED NextMain
    /\ (exit_code = <<0>>) <=> (stage = "done")
    /\ (exit_code = <<0>>) =>
           /\ steps = <<"ingest", "transform", "analyze", "export">>
           /\ output = {ExportFiles[k] : k \in 1..Len(ExportFiles)}

\* A run that the date filter ends: the ledger had rows, none of them in
\* the range, and nothing is written.
C13_Witness ==
    /\ stage = "failed"
    /\ exit_code = <<1>>
    /\ message = "No transactions in the specified date range."
    /\ steps = <<"ingest", "transform">>
    /\ prev # <<>>
    /\ output = {}


(***************************************************************************)
(* analyze on its own: the stages and views in the order of the function,  *)
(* over ledgers of whole-dollar amounts, whose sums binary64 holds         *)
(* exactly.                                                                *)
(***************************************************************************)
MaxSavingsRows == 3

SavingsRow(date, amount, category) ==
    EnrichedRow(date, <<"a">>, amount, Null, category, <<"A">>, FALSE)

SavingsRows ==
    {SavingsRow(0, 300, "Income"), SavingsRow(0, -200, "Food"), SavingsRow(0, -100, "Food"),
     SavingsRow(31, 800, "Income"), SavingsRow(31, -750, "Food"),
     SavingsRow(31, -100, "Income"), SavingsRow(31, -300, "Transfer"),
     [SavingsRow(31, -50, "Food") EXCEPT !.is_duplicate = TRUE]}

InitAnalyze ==
    /\ ledger \in {df \in SeqsUpTo(SavingsRows, MaxSavingsRows) :
                      df # <<>> /\ IsSortedByDate(df)}
    /\ files = <<>>
    /\ prev = <<>>
    /\ stage = "filtered"
    /\ std_threshold = 20
    /\ starting_balance = 0
    /\ categories = <<>>
    /\ result = NoViews
    /\ is_dir = TRUE
    /\ config_exists = TRUE
    /\ start = Null
    /\ end = Null
    /\ exit_code = Null
    /\ steps = <<"ingest", "transform">>
    /\ output = {}
    /\ warnings = <<>>
    /\ formats = <<>>
    /\ curr_spend = Null
    /\ message = ""
    /\ budgets = <<[category |-> "Food", limit |-> 300], [category |-> "Rent", limit |-> 0]>>

NextAnalyze ==
    \/ FlagAnomalies
    \/ RunningBalance
    \/ MonthlySpendingByCategory
    \/ MonthlyIncomeVsExpenses
    \/ AnomaliesView
    \/ FindRecurring
    \/ TopMerchants
    \/ SpendingByDow
    \/ CategoryMom
    \/ BudgetStatus
    \/ SavingsRate
    \/ Export

SpecAnalyze == InitAnalyze /\ [][NextAnalyze]_vars

SummaryRows == {result.monthly_summary[k] : k \in 1..Len(result.monthly_summary)}

\* C11 as stated: the savings rate of every month is net / income, and 0
\* for an income of 0.
C11_SavingsRateExact ==
    (stage = "analyzed") =>
        \A row \in SummaryRows :
            /\ row.net = row.income - row.expenses
            /\ row.savings_rate # Null
            /\ row.income = 0 => row.savings_rate = <<0>>
            /\ row.income # 0 => row.savings_rate[1] * row.income = 1000 * row.net

\* C11 as the code computes it: for every month of the summary net is
\* income - expenses and the savings rate is net / income ROUNDED to three
\* decimals (a thousandth nearest to the quotient), and 0 for an income of
\* 0; the rate is never missing, and the step that computes it can always
\* be taken.
C11_SavingsRateRounded ==
    /\ (stage = "budget_status") => ENABLED SavingsRate
    /\ (stage = "analyzed") =>
           \A row \in SummaryRows :
               /\ row.net = row.income - row.expenses
               /\ row.savings_rate # Null
               /\ row.income = 0 => row.savings_rate = <<0>>
               /\ row.income # 0 =>
                      2 * Abs(row.savings_rate[1] * row.income - 1000 * row.net)
                          <= Abs(row.income)

\* January with an income of 3.00 and expenses of 1.00 has the rate 0.667,
\* February without income has the rate 0.
C11_Witness ==
    /\ stage = "analyzed"
    /\ Len(result.monthly_summary) = 2
    /\ result.monthly_summary[1].income = 300
    /\ result.monthly_summary[1].expenses = 100
    /\ result.monthly_summary[1].savings_rate = <<667>>
    /\ result.monthly_summary[2].income = 0
    /\ result.monthly_summary[2].expenses = 750
    /\ result.monthly_summary[2].savings_rate = <<0>>

(***************************************************************************)
(* transform and analyze as a caller of the library runs them on a frame   *)
(* of its own: the dates of the frame may be missing or texts that nothing *)
(* parses.  No bound of main's filter is given.                            *)
(***************************************************************************)
MaxPipeRows == 2

PipeRows ==
    {RawRow(date, <<"a">>, -500, <<>>) : date \in {0, 5, NaT, Unparseable}}
    \cup {RawRow(date, <<"B", "b">>, 700, <<"x">>) : date \in {0, 5, NaT, Unparseable}}

InitPipe ==
    /\ ledger \in SeqsUpTo(PipeRows, MaxPipeRows) \ {<<>>}
    /\ files = <<>>
    /\ prev = <<>>
    /\ stage = "ingested"
    /\ std_threshold = 20
    /\ starting_balance = 0
    /\ categories = MainRules
    /\ budgets = MainBudgets
    /\ result = NoViews
    /\ is_dir = TRUE
    /\ config_exists = TRUE
    /\ start = Null
    /\ end = Null
    /\ exit_code = Null
    /\ steps = <<"ingest">>
    /\ output = {}
    /\ warnings = <<>>
    /\ formats = <<>>
    /\ curr_spend = Null
    /\ message = ""

NextPipe ==
    \/ Categorize
    \/ AddDerivedFields
    \/ FlagDuplicates
    \/ FilterByDateRange
    \/ FlagAnomalies
    \/ RunningBalance
    \/ MonthlySpendingByCategory
    \/ MonthlyIncomeVsExpenses
    \/ AnomaliesView
    \/ FindRecurring
    \/ TopMerchants
    \/ SpendingByDow
    \/ CategoryMom
    \/ BudgetStatus
    \/ SavingsRate

SpecPipe == InitPipe /\ [][NextPipe]_vars

\* The columns of a row that come from the bank.
Core(row) == <<row.date, row.description, row.amount>>

Source(row) == <<row.date, row.description, row.amount, row.bank_category, row.source_file>>

\* How often a tuple of columns occurs in a frame.
CoreCount(df, core) == Cardinality({i \in 1..Len(df) : Core(df[i]) = core})

SourceCount(df, source) == Cardinality({i \in 1..Len(df) : Source(df[i]) = source})

\* The rows whose date is a date.
Parseable(df) == SelectSeq(df, LAMBDA row : row.date \notin {NaT, Unparseable})

\* C16: categorize, flag_duplicates, flag_anomalies and running_balance
\* return as many rows as they receive, with the same (date, description,
\* amount) as many times; add_derived_fields returns the rows whose date
\* parses, in their order, and drops the others; no later step of analyze
\* changes the number of rows.
C16_StagesPreserveRows ==
    /\ (stage \in {"categorized", "transformed", "anomalies", "balanced"}) =>
           /\ Len(ledger) = Len(prev)
           /\ \A i \in 1..Len(prev) :
                  CoreCount(ledger, Core(prev[i])) = CoreCount(prev, Core(prev[i]))
    /\ (stage = "derived") =>
           /\ Len(ledger) = Len(Parseable(prev))
           /\ \A i \in 1..Len(ledger) : Core(ledger[i]) = Core(Parseable(prev)[i])
    /\ (stage \notin {"ingested", "categorized", "derived", "failed"}) =>
           Len(ledger) = Len(prev)

\* add_derived_fields has dropped a row without a date and a row whose date
\* nothing parses, and kept no row.
C16_Witness ==
    /\ stage = "derived"
    /\ Len(prev) = 2
    /\ prev[1].date = NaT
    /\ prev[2].date = Unparseable
    /\ ledger = <<>>


\* A step of transform or analyze that changes the ledger keeps the
\* source columns of the rows that stay.
KeepsSource ==
    \A i \in 1..Len(ledger') :
        SourceCount(ledger', Source(ledger'[i])) <= SourceCount(ledger, Source(ledger'[i]))

\* A step that writes a view.
WritesView == result' # result

\* C18: every step leaves the date, description, amount, bank_category and
\* source_file of the rows it returns as they were (each such tuple occurs
\* in the output at most as often as in the input), and a step that writes a
\* view leaves the ledger as it is.
C18_SourceFieldsFrame ==
    [][/\ KeepsSource
       /\ WritesView => ledger' = ledger]_vars

\* The ledger after the last view: rows with a merchant that differs from
\* the description, the views written.
C18_Witness ==
    /\ stage = "analyzed"
    /\ Len(ledger) = 2
    /\ \E i \in 1..2 : ledger[i].merchant # ledger[i].description
    /\ \E i \in 1..2 : ledger[i].bank_category = <<"x">>
    /\ result.monthly_summary # <<>>
    /\ result.top_merchants # <<>>
    /\ result.spending_by_dow # <<>>

(***************************************************************************)
(* add_derived_fields applied to its own output.                           *)
(***************************************************************************)
MaxDeriveRows == 2

DeriveRow(date, description, amount) ==
    [RawRow(date, description, amount, <<>>) EXCEPT !.category = "Food"]

DeriveRows ==
    {DeriveRow(date, <<"a">>, -500) : date \in {0, 5, 6, NaT, Unparseable}}
    \cup {DeriveRow(5, <<"a", " ", "#", "1">>, -500), DeriveRow(0, <<"B", " ", " ", "b">>, 700), DeriveRow(6, <<"a">>, 0)}

InitDerive ==
    /\ ledger \in SeqsUpTo(DeriveRows, MaxDeriveRows)
    /\ files = <<>>
    /\ prev = <<>>
    /\ stage = "categorized"
    /\ std_threshold = 20
    /\ starting_balance = 0
    /\ categories = MainRules
    /\ result = NoViews
    /\ Standalone

\* A second call on the frame the first call returned.
AddDerivedFieldsAgain ==
    /\ stage = "derived"
    /\ ledger' = add_derived_fields(ledger)
    /\ prev' = ledger
    /\ stage' = "derived_again"
    /\ UNCHANGED <<files, std_threshold, starting_balance, categories, result, run, budgets>>

NextDerive == AddDerivedFields \/ AddDerivedFieldsAgain

SpecDerive == InitDerive /\ [][NextDerive]_vars

\* C17: a second call of add_derived_fields returns the frame the first
\* call returned, row by row and column by column; in an enriched frame
\* is_expense holds exactly for amount < 0, abs_amount is the amount without
\* its sign, and is_weekend holds exactly for day_of_week >= 5.
C17_Idempotent ==
    /\ (stage = "derived_again") => ledger = prev
    /\ (stage \in {"derived", "derived_again"}) =>
           \A i \in 1..Len(ledger) :
               /\ ledger[i].is_expense <=> ledger[i].amount < 0
               /\ ledger[i].abs_amount >= 0
               /\ ledger[i].abs_amount \in {ledger[i].amount, -ledger[i].amount}
               /\ ledger[i].is_weekend <=> ledger[i].day_of_week >= 5

\* A Saturday expense with a cleaned merchant name and a Monday income,
\* enriched twice.
C17_Witness ==
    /\ stage = "derived_again"
    /\ Len(ledger) = 2
    /\ ledger[1].day_of_week = 5 /\ ledger[1].is_weekend /\ ledger[1].is_expense
    /\ ledger[1].description = <<"a", " ", "#", "1">> /\ ledger[1].merchant # ledger[1].description
    /\ ledger[2].day_of_week = 0 /\ ~ledger[2].is_weekend /\ ~ledger[2].is_expense

(***************************************************************************)
(* load_directory over a directory of one file, for the headers            *)
(* _detect_format tells apart.                                             *)
(***************************************************************************)
\* The column names of the four header profiles, in one order.
ColumnPool ==
    <<<<"T", "r", "a", "n", "s", "a", "c", "t", "i", "o", "n", " ", "D", "a", "t", "e">>, <<"P", "o", "s", "t", " ", "D", "a", "t", "e">>, <<"D", "e", "s", "c", "r", "i", "p", "t", "i", "o", "n">>, <<"A", "m", "o", "u", "n", "t">>, <<"D", "a", "t", "e">>,
      <<"R", "u", "n", "n", "i", "n", "g", " ", "B", "a", "l", ".">>, <<"T", "r", "a", "n", "s", "a", "c", "t", "i", "o", "n", " ", "D", "e", "s", "c", "r", "i", "p", "t", "i", "o", "n">>, <<"T", "r", "a", "n", "s", "a", "c", "t", "i", "o", "n", " ", "T", "y", "p", "e">>,
      <<"T", "r", "a", "n", "s", "a", "c", "t", "i", "o", "n", " ", "A", "m", "o", "u", "n", "t">>, <<"N", "e", "t", " ", "A", "m", "o", "u", "n", "t">>, <<"S", "t", "a", "t", "u", "s">>, <<"N", "o", "t", "e", "s">>>>

PoolHeaders ==
    {SelectSeq(ColumnPool, LAMBDA c : c \in chosen) :
        chosen \in (SUBSET {ColumnPool[i] : i \in 1..Len(ColumnPool)}) \ {{}}}

\* Files with rows: a Bank of America export with padded column names, a
\* Chase export, a file without a header line, a file of five labeled
\* columns, a file of five columns named by numerals and a file of three.
FilesWithRows ==
    <<[name |-> "a.csv",
      header |-> <<<<" ", "D", "a", "t", "e">>, <<"D", "e", "s", "c", "r", "i", "p", "t", "i", "o", "n", " ">>, <<"A", "m", "o", "u", "n", "t">>, <<"R", "u", "n", "n", "i", "n", "g", " ", "B", "a", "l", ".">>>>,
      rows |-> <<[Date |-> 0, Description |-> <<"a">>, Amount |-> <<"-", "5">>]>>],
     [name |-> "a.csv",
      header |-> <<<<"T", "r", "a", "n", "s", "a", "c", "t", "i", "o", "n", " ", "D", "a", "t", "e">>, <<"P", "o", "s", "t", " ", "D", "a", "t", "e">>, <<"D", "e", "s", "c", "r", "i", "p", "t", "i", "o", "n">>, <<"C", "a", "t", "e", "g", "o", "r", "y">>, <<"A", "m", "o", "u", "n", "t">>>>,
      rows |-> <<[TransactionDate |-> 1, Description |-> <<"a">>, Category |-> <<"b">>,
                  Amount |-> <<"-", "5">>]>>],
     [name |-> "a.csv",
      header |-> <<<<"0", "1", "/", "0", "2", "/", "2", "0", "2", "4">>, <<"-", "5", ".", "0", "0">>, <<"*">>, <<"x">>, <<"S", "H", "O", "P">>>>,
      rows |-> <<<<<<"0", "1", "/", "0", "3", "/", "2", "0", "2", "4">>, <<"7">>, <<"*">>, <<"x">>, <<"P", "A", "Y">>>>>>],
     [name |-> "a.csv",
      header |-> <<<<"D", "a", "t", "e">>, <<"P", "a", "y", "e", "e">>, <<"A", "m", "o", "u", "n", "t">>, <<"M", "e", "m", "o">>, <<"T", "a", "g">>>>,
      rows |-> <<<<<<"0", "1", "/", "0", "2", "/", "2", "0", "2", "4">>, <<"S", "h", "o", "p">>, <<"-", "5">>, <<"m">>, <<"t">>>>>>],
     [name |-> "a.csv",
      header |-> <<<<"0">>, <<"1">>, <<"2">>, <<"3">>, <<"4">>>>,
      rows |-> <<<<<<"0", "1", "/", "0", "2", "/", "2", "0", "2", "4">>, <<"-", "5">>, <<"*">>, <<"x">>, <<"S", "h", "o", "p">>>>>>],
     [name |-> "a.csv",
      header |-> <<<<"P", "o", "s", "t", "e", "d", " ", "D", "A", "T", "E">>, <<"M", "e", "m", "o">>, <<"T", "o", "t", "a", "l">>>>,
      rows |-> <<<<<<"2", "0", "2", "4", "-", "0", "1", "-", "0", "5">>, <<"C", "o", "f", "f", "e", "e">>, <<"-", "3", ".", "5", "0">>>>>>]>>

InitDetect ==
    /\ \/ \E h \in PoolHeaders : files = <<[name |-> "a.csv", header |-> h, rows |-> <<>>]>>
       \/ \E k \in 1..Len(FilesWithRows) : files = <<FilesWithRows[k]>>
    /\ ledger = <<>>
    /\ prev = <<>>
    /\ stage = "start"
    /\ std_threshold = 20
    /\ starting_balance = 0
    /\ categories = <<>>
    /\ result = NoViews
    /\ Standalone

NextDetect == LoadDirectory

SpecDetect == InitDetect /\ [][NextDetect]_vars

\* The columns in the opposite order.
Reversed(header) == [i \in 1..Len(header) |-> header[Len(header) + 1 - i]]

\* The header carries every column name of a profile.
Satisfies(header, profile) ==
    \A name \in profile : \E i \in 1..Len(header) : Strip(header[i]) = name

MatchesNoProfile(header) ==
    /\ ~Satisfies(header, ChaseColumns)
    /\ ~Satisfies(header, BofaColumns)
    /\ ~Satisfies(header, CapitalOneColumns)
    /\ ~Satisfies(header, CashAppColumns)

\* The columns carry no labels: each is named by a numeral, as the columns
\* of a frame read without a header line are.
Unlabeled(header) == AllNumeric(header)

\* The earliest profile the header satisfies comes out.
PriorityOrder(header, fmt) ==
    /\ Satisfies(header, ChaseColumns) => fmt = "chase"
    /\ ~Satisfies(header, ChaseColumns) /\ Satisfies(header, BofaColumns) => fmt = "bofa"
    /\ /\ ~Satisfies(header, ChaseColumns)
       /\ ~Satisfies(header, BofaColumns)
       /\ Satisfies(header, CapitalOneColumns)
       => fmt = "capital_one"
    /\ /\ ~Satisfies(header, ChaseColumns)
       /\ ~Satisfies(header, BofaColumns)
       /\ ~Satisfies(header, CapitalOneColumns)
       /\ Satisfies(header, CashAppColumns)
       => fmt = "cash_app"

\* C21 as stated: the profiles are tried in the order chase, bofa,
\* capital_one, cash_app; a header that satisfies none is wells_fargo only
\* when it has exactly five unlabeled columns, and generic otherwise, five
\* labeled columns included.
C21_LabeledFiveIsGeneric ==
    formats # <<>> =>
        \A i \in 1..Len(files) :
            /\ PriorityOrder(files[i].header, formats[i])
            /\ MatchesNoProfile(files[i].header) =>
                   formats[i] = (IF Len(files[i].header) = 5 /\ Unlabeled(files[i].header)
                                 THEN "wells_fargo" ELSE "generic")

\* C21, what the code does: the profiles are tried in the order chase,
\* bofa, capital_one, cash_app; a header that satisfies none is wells_fargo
\* whenever it has exactly five columns, whatever their names, and generic
\* otherwise.  The order of the columns does not matter.
C21_AnyFiveIsPositional ==
    formats # <<>> =>
        \A i \in 1..Len(files) :
            /\ PriorityOrder(files[i].header, formats[i])
            /\ MatchesNoProfile(files[i].header) =>
                   formats[i] = (IF Len(files[i].header) = 5 THEN "wells_fargo" ELSE "generic")
            /\ detect_format(Reversed(files[i].header)) = formats[i]

\* A file of five labeled columns that the generic profile would read is
\* taken for a file without a header line; its header line is then a row
\* whose date nothing parses, and the file is skipped.
C21_Witness ==
    /\ stage = "failed"
    /\ files[1].header = <<<<"D", "a", "t", "e">>, <<"P", "a", "y", "e", "e">>, <<"A", "m", "o", "u", "n", "t">>, <<"M", "e", "m", "o">>, <<"T", "a", "g">>>>
    /\ ~GenericRaises(files[1].header)
    /\ formats = <<"wells_fargo">>
    /\ warnings = <<"a.csv">>
    /\ message = "No valid CSV files could be loaded."

\* A header that satisfies the Chase and the Capital One signatures.
C21_PriorityWitness ==
    /\ formats = <<"chase">>
    /\ Satisfies(files[1].header, CapitalOneColumns)
    /\ Satisfies(files[1].header, CashAppColumns)

(***************************************************************************)
(* load_directory over a directory of one Capital One export of one row.   *)
(***************************************************************************)
CapitalOneHeader ==
    <<<<"T", "r", "a", "n", "s", "a", "c", "t", "i", "o", "n", " ", "D", "a", "t", "e">>, <<"T", "r", "a", "n", "s", "a", "c", "t", "i", "o", "n", " ", "D", "e", "s", "c", "r", "i", "p", "t", "i", "o", "n">>, <<"T", "r", "a", "n", "s", "a", "c", "t", "i", "o", "n", " ", "T", "y", "p", "e">>,
      <<"T", "r", "a", "n", "s", "a", "c", "t", "i", "o", "n", " ", "A", "m", "o", "u", "n", "t">>>>

CapitalOneTypes ==
    {<<"D", "e", "b", "i", "t">>, <<"d", "e", "b", "i", "t">>, <<" ", "D", "E", "B", "I", "T">>, <<"C", "r", "e", "d", "i", "t">>, <<" ", "c", "r", "e", "d", "i", "t", " ">>, <<"C", "R", "E", "D", "I", "T">>, <<"P", "a", "y", "m", "e", "n", "t">>, NaN}

CapitalOneAmounts == {<<"5">>, <<"1", "2", ".", "5", "0">>, <<"$", "1", ",", "0", "0", "0", ".", "0", "0">>, <<"0", ".", "0", "7">>}

CapitalOneRows ==
    {[TransactionDate |-> d, TransactionDescription |-> <<"a">>, TransactionType |-> t,
      TransactionAmount |-> a] :
        d \in {0, 1, NaT}, t \in CapitalOneTypes, a \in CapitalOneAmounts}

InitCapitalOne ==
    /\ files \in {<<[name |-> "a.csv", header |-> CapitalOneHeader, rows |-> <<r>>]>> :
                     r \in CapitalOneRows}
    /\ ledger = <<>>
    /\ prev = <<>>
    /\ stage = "start"
    /\ std_threshold = 20
    /\ starting_balance = 0
    /\ categories = <<>>
    /\ result = NoViews
    /\ Standalone

NextCapitalOne == LoadDirectory

SpecCapitalOne == InitCapitalOne /\ [][NextCapitalOne]_vars

\* The type flag of a row reads as the word, whatever its case and padding.
TypeReads(raw, word) ==
    raw.TransactionType # NaN /\ Lower(Strip(raw.TransactionType)) = word

\* The amount of the source, which carries no sign.
SourceAmount(raw) == parse_amount(raw.TransactionAmount).value

\* C26: a Capital One row of type Debit with source amount a is loaded with
\* amount -a, and a row of type Credit, trimmed and in any case, with +a.
C26_SignByType ==
    stage = "ingested" =>
        /\ Len(ledger) = 1
        /\ SourceAmount(files[1].rows[1]) > 0
        /\ TypeReads(files[1].rows[1], <<"d", "e", "b", "i", "t">>) =>
               ledger[1].amount = -SourceAmount(files[1].rows[1])
        /\ TypeReads(files[1].rows[1], <<"c", "r", "e", "d", "i", "t">>) =>
               ledger[1].amount = SourceAmount(files[1].rows[1])

\* A credit written " credit " is money in.
C26_Witness ==
    /\ stage = "ingested"
    /\ formats = <<"capital_one">>
    /\ files[1].rows[1].TransactionType = <<" ", "c", "r", "e", "d", "i", "t", " ">>
    /\ files[1].rows[1].TransactionAmount = <<"$", "1", ",", "0", "0", "0", ".", "0", "0">>
    /\ ledger[1].amount = 100000

\* A debit is money out.
C26_DebitWitness ==
    /\ stage = "ingested"
    /\ files[1].rows[1].TransactionType = <<"D", "e", "b", "i", "t">>
    /\ files[1].rows[1].TransactionAmount = <<"1", "2", ".", "5", "0">>
    /\ ledger[1].amount = -1250

(***************************************************************************)
(* The current month of budget_status and of the dashboard.                *)
(***************************************************************************)
\* The latest year_month present in the ledger.
LatestMonth(df) == MaxOf({df[i].year_month : i \in 1..Len(df)})

\* The rows that count as spending: money out, not a duplicate, not a
\* transfer.
Spending(df) ==
    {i \in 1..Len(df) : df[i].amount < 0 /\ ~df[i].is_duplicate /\ df[i].category # "Transfer"}

\* The latest year_month in which something was spent.
LatestSpendingMonth(df) == MaxOf({df[i].year_month : i \in Spending(df)})

\* What a category spent in a month.
SpendingTotal(df, month, category) ==
    SumOver([i \in 1..Len(df) |-> -df[i].amount],
            {i \in Spending(df) : df[i].year_month = month /\ df[i].category = category})

BudgetStatusComputed == stage \in {"budget_status", "analyzed", "done"}

\* One entry for every configured budget, with its limit.
OneEntryPerBudget(view) ==
    /\ Len(view) = Len(budgets)
    /\ \A k \in 1..Len(budgets) :
           \E e \in 1..Len(view) :
               view[e].category = budgets[k].category /\ view[e].budget = budgets[k].limit

SortedDescending(view) ==
    \A i, j \in 1..Len(view) : i < j => view[i].pct_used >= view[j].pct_used

\* C22 as stated: one entry per configured budget; spent is what the
\* category spent in the latest year_month present in the ledger; pct_used
\* is spent / limit * 100 (held in tenths of a percent); the entries are
\* sorted by pct_used, descending.
C22_LatestLedgerMonth ==
    BudgetStatusComputed =>
        /\ OneEntryPerBudget(result.budget_status)
        /\ SortedDescending(result.budget_status)
        /\ \A e \in 1..Len(result.budget_status) :
               LET entry == result.budget_status[e] IN
               /\ entry.spent = SpendingTotal(ledger, LatestMonth(ledger), entry.category)
               /\ entry.budget > 0 => entry.pct_used * entry.budget = 1000 * entry.spent

\* C22, what the code does: the result is empty when nothing was spent;
\* otherwise there is one entry per configured budget, spent is what the
\* category spent in the latest month in which something was spent, pct_used
\* is spent / limit * 100 rounded to one decimal, and 0 for a limit that is
\* not positive; the entries are sorted by pct_used, descending.
C22_LatestSpendingMonth ==
    BudgetStatusComputed =>
        IF Spending(ledger) = {} \/ budgets = <<>>
        THEN result.budget_status = <<>>
        ELSE /\ OneEntryPerBudget(result.budget_status)
             /\ SortedDescending(result.budget_status)
             /\ \A e \in 1..Len(result.budget_status) :
                    LET entry == result.budget_status[e] IN
                    /\ entry.spent
                         = SpendingTotal(ledger, LatestSpendingMonth(ledger), entry.category)
                    /\ IF entry.budget > 0
                       THEN 2 * Abs(entry.pct_used * entry.budget - 1000 * entry.spent)
                                <= entry.budget
                       ELSE entry.pct_used = 0

\* January has spending on Food, February has income only: the entry of
\* Food reports the spending of January.
C22_Witness ==
    /\ stage = "budget_status"
    /\ Len(ledger) = 2
    /\ ledger[1].year_month = 202401 /\ ledger[1].category = "Food" /\ ledger[1].amount = -200
    /\ ledger[2].year_month = 202402 /\ ledger[2].category = "Income" /\ ledger[2].amount = 800
    /\ LatestMonth(ledger) = 202402
    /\ \E e \in 1..Len(result.budget_status) :
           /\ result.budget_status[e].category = "Food"
           /\ result.budget_status[e].spent = 200
           /\ result.budget_status[e].pct_used = 667

\* CURR_SPEND[category] || 0
DashboardSpend(category) ==
    IF category \in DOMAIN curr_spend[1] THEN curr_spend[1][category] ELSE 0

\* C30 as stated: for each budgeted category the spent of budget_status is
\* the current-month spend of the dashboard, 0 when the dashboard has none.
C30_SpendAgrees ==
    stage = "done" =>
        \A e \in 1..Len(result.budget_status) :
            result.budget_status[e].spent = DashboardSpend(result.budget_status[e].category)

\* C30, what the code does: the two agree when something was spent in the
\* latest month of the ledger; when nothing was, budget_status reports an
\* earlier month and the dashboard reports no spending at all.
C30_SpendAgreesInSpendingMonth ==
    stage = "done" =>
        IF Spending(ledger) # {} /\ LatestSpendingMonth(ledger) = LatestMonth(ledger)
        THEN \A e \in 1..Len(result.budget_status) :
                 result.budget_status[e].spent
                     = DashboardSpend(result.budget_status[e].category)
        ELSE DOMAIN curr_spend[1] = {}

\* budget_status says Food spent 2.00, the dashboard says 0.
C30_Witness ==
    /\ stage = "done"
    /\ Len(ledger) = 2
    /\ ledger[1].year_month = 202401 /\ ledger[1].category = "Food" /\ ledger[1].amount = -200
    /\ ledger[2].year_month = 202402 /\ ledger[2].category = "Income" /\ ledger[2].amount = 800
    /\ \E e \in 1..Len(result.budget_status) :
           /\ result.budget_status[e].category = "Food"
           /\ result.budget_status[e].spent = 200
    /\ DashboardSpend("Food") = 0

(***************************************************************************)
(* The ledger main hands to analyze when --start or --end is given.        *)
(***************************************************************************)
FilterGiven == start # <<>> \/ end # <<>>

\* analyze has been handed the ledger.
HandedToAnalysis ==
    stage \in {"filtered", "anomalies", "balanced", "monthly_by_category", "monthly_summary",
               "anomalies_view", "recurring", "top_merchants", "spending_by_dow",
               "mom_comparison", "budget_status", "analyzed", "done"}

\* C27 as stated: in the ledger handed to analysis after a date-range
\* filter, every row flagged is_duplicate has a partner in that ledger:
\* another row with the same amount and description, dated within 2 days.
C27_PartnerInFilteredLedger ==
    (FilterGiven /\ HandedToAnalysis) =>
        \A i \in 1..Len(ledger) :
            ledger[i].is_duplicate => \E j \in 1..Len(ledger) : Partner(ledger, i, j, WindowDays)

\* C27, what the code does: the filter neither sets nor clears a flag, so a
\* flagged row of the filtered ledger has its partner in the ledger that
\* transform returned, inside the range or not.
C27_PartnerInTransformedLedger ==
    (FilterGiven /\ stage = "filtered") =>
        \A i \in 1..Len(ledger) :
            \E k \in 1..Len(prev) :
                /\ prev[k] = ledger[i]
                /\ ledger[i].is_duplicate =>
                       \E j \in 1..Len(prev) : Partner(prev, k, j, WindowDays)

\* The same charge on 31 January and on 1 February, and --start 2024-02:
\* the row of February stays flagged and its partner is gone.
C27_Witness ==
    /\ stage = "filtered"
    /\ start = <<"2", "0", "2", "4", "-", "0", "2">>
    /\ Len(prev) = 2
    /\ prev[1].date = 30 /\ prev[2].date = 31
    /\ Partner(prev, 1, 2, WindowDays)
    /\ Len(ledger) = 1
    /\ ledger[1].date = 31
    /\ ledger[1].is_duplicate

\* The month a bound of the command line names, as year * 100 + month.
BoundMonth(text) == NatOf(SubSeq(text, 1, 4)) * 100 + NatOf(SubSeq(text, 6, 7))

\* The row lies in the range of --start and --end.
InRange(row) ==
    /\ start # <<>> => BoundMonth(start) <= row.year_month
    /\ end # <<>> => row.year_month <= BoundMonth(end)

ViewMonths ==
    {result.monthly_summary[k].year_month : k \in 1..Len(result.monthly_summary)}
    \cup {result.monthly_by_category[k].year_month : k \in 1..Len(result.monthly_by_category)}
    \cup {result.anomalies[k].year_month : k \in 1..Len(result.anomalies)}

\* C25: with --start or --end the filter runs after transform and before
\* analyze: the ledger it receives is categorized, enriched and flagged and
\* no view exists yet; the ledger analyze works on holds the in-range rows
\* only, no view names a month outside the range, and the running balance
\* of the first row is starting_balance plus its amount.
C25_FilterBeforeAnalyze ==
    FilterGiven =>
        /\ stage = "filtered" =>
               /\ steps = <<"ingest", "transform">>
               /\ result = NoViews
               /\ ledger = SelectSeq(prev, InRange)
               /\ \A i \in 1..Len(prev) :
                      /\ prev[i].category \in STRING
                      /\ prev[i].year_month = YearMonth(prev[i].date)
                      /\ prev[i].is_duplicate \in BOOLEAN
        /\ HandedToAnalysis =>
               /\ ledger # <<>>
               /\ \A i \in 1..Len(ledger) : InRange(ledger[i])
               /\ \A ym \in ViewMonths :
                      /\ start # <<>> => BoundMonth(start) <= ym
                      /\ end # <<>> => ym <= BoundMonth(end)
        /\ (HandedToAnalysis /\ stage \notin {"filtered", "anomalies"}) =>
               ledger[1].running_balance = starting_balance + ledger[1].amount

\* A charge of January is left out by --start 2024-02: the balance starts
\* from the first row of February.
C25_Witness ==
    /\ stage = "done"
    /\ start = <<"2", "0", "2", "4", "-", "0", "2">>
    /\ Len(files[1].rows) = 2
    /\ files[1].rows[1].Date = 0
    /\ files[1].rows[2].Date = 31
    /\ Len(ledger) = 1
    /\ starting_balance = 1000
    /\ ledger[1].running_balance = 1000 + ledger[1].amount
    /\ ViewMonths = {202402}

(***************************************************************************)
(* The two monthly views side by side.                                     *)
(***************************************************************************)
\* The total_spent of a month over the categories of monthly_by_category.
SpentOverCategories(view, ym) ==
    SumOver([k \in 1..Len(view) |-> view[k].total_spent],
            {k \in 1..Len(view) : view[k].year_month = ym})

\* The rows of the summary for a month.
SummaryOf(ym) ==
    {k \in 1..Len(result.monthly_summary) : result.monthly_summary[k].year_month = ym}

BothMonthlyViews ==
    stage \in {"monthly_summary", "anomalies_view", "recurring", "top_merchants",
               "spending_by_dow", "mom_comparison", "budget_status", "analyzed", "done"}

\* C28: for every month the expenses of the summary are the total_spent of
\* that month summed over the categories of monthly_by_category; a month
\* with Income rows and nothing spent is in the summary with expenses 0,
\* and a month with spending and no Income row is there with income 0.
C28_MonthlyViewsAgree ==
    BothMonthlyViews =>
        /\ \A k \in 1..Len(result.monthly_summary) :
               result.monthly_summary[k].expenses
                   = SpentOverCategories(result.monthly_by_category,
                                         result.monthly_summary[k].year_month)
        /\ \A k \in 1..Len(result.monthly_by_category) :
               Cardinality(SummaryOf(result.monthly_by_category[k].year_month)) = 1
        /\ \A i \in 1..Len(ledger) :
               LET ym == ledger[i].year_month
                   spent == {j \in Spending(ledger) : ledger[j].year_month = ym}
                   earned == {j \in 1..Len(ledger) :
                                 ledger[j].year_month = ym /\ ledger[j].category = "Income"}
               IN  /\ (earned # {} /\ spent = {}) =>
                          \E k \in SummaryOf(ym) : result.monthly_summary[k].expenses = 0
                   /\ (spent # {} /\ earned = {}) =>
                          \E k \in SummaryOf(ym) : result.monthly_summary[k].income = 0

\* February has spending in two categories and a transfer, January has
\* income only.
C28_Witness ==
    /\ stage = "monthly_summary"
    /\ Len(result.monthly_by_category) = 2
    /\ result.monthly_by_category[1].year_month = 202402
    /\ result.monthly_by_category[2].year_month = 202402
    /\ result.monthly_by_category[1].category # result.monthly_by_category[2].category
    /\ \E i \in 1..Len(ledger) : ledger[i].category = "Transfer" /\ ledger[i].amount < 0
    /\ \E k \in SummaryOf(202402) : result.monthly_summary[k].expenses = 850

\* A month with income and nothing spent.
C28_IncomeOnlyWitness ==
    /\ stage = "monthly_summary"
    /\ Len(ledger) = 2
    /\ ledger[1].category = "Income" /\ ledger[1].year_month = 202401
    /\ ledger[2].category = "Food" /\ ledger[2].year_month = 202402
    /\ \E k \in SummaryOf(202401) : result.monthly_summary[k].expenses = 0
    /\ \E k \in SummaryOf(202402) : result.monthly_summary[k].income = 0

\* The rows of a month categorized Income, whatever their sign and flag.
IncomeRows(df, ym) ==
    {i \in 1..Len(df) : df[i].year_month = ym /\ df[i].category = "Income"}

\* C29: the income of a month is the signed sum of the amounts of all its
\* rows categorized Income, the negative and the duplicate-flagged ones
\* included; the expenses are the spending of the month, duplicate-flagged
\* rows left out; so an Income row of a negative amount that is not flagged
\* lowers the income and is part of the expenses.
C29_IncomeUnfiltered ==
    stage = "monthly_summary" =>
        \A k \in 1..Len(result.monthly_summary) :
            LET row == result.monthly_summary[k]
                spent == {i \in Spending(ledger) : ledger[i].year_month = row.year_month}
            IN  /\ row.income = SumOver([i \in 1..Len(ledger) |-> ledger[i].amount],
                                        IncomeRows(ledger, row.year_month))
                /\ row.expenses = SumOver([i \in 1..Len(ledger) |-> -ledger[i].amount], spent)
                /\ \A i \in IncomeRows(ledger, row.year_month) :
                       (ledger[i].amount < 0 /\ ~ledger[i].is_duplicate) => i \in spent

\* A month with an Income row of 3000, an Income row of -20 and an Income
\* row of -20 flagged as a duplicate: income 2960, expenses 20.
C29_Witness ==
    /\ stage = "monthly_summary"
    /\ Len(ledger) = 3
    /\ \A i \in 1..3 : ledger[i].category = "Income" /\ ledger[i].year_month = 202401
    /\ \E i, j \in 1..3 :
           /\ ledger[i].amount = -20 /\ ledger[i].is_duplicate
           /\ ledger[j].amount = -20 /\ ~ledger[j].is_duplicate
    /\ result.monthly_summary[1].income = 2960
    /\ result.monthly_summary[1].expenses = 20

(***************************************************************************)
(* load_directory over a directory of two Bank of America exports that the *)
(* directory lists in either order.                                        *)
(***************************************************************************)
MaxOrderRows == 2

\* Two rows of the same date and a row with a date that nothing parses.
OrderRows ==
    {BofaRow(0, <<"a">>, <<"-", "5">>), BofaRow(0, <<"b">>, <<"-", "3">>),
     BofaRow(Unparseable, <<"a">>, <<"-", "5">>)}

OrderFiles(name) ==
    {[name |-> name, header |-> BofaHeader, rows |-> r] : r \in SeqsUpTo(OrderRows, MaxOrderRows)}

InitOrder ==
    /\ \E a \in OrderFiles("a.csv"), b \in OrderFiles("b.csv") : files \in {<<a, b>>, <<b, a>>}
    /\ ledger = <<>>
    /\ prev = <<>>
    /\ stage = "start"
    /\ std_threshold = 20
    /\ starting_balance = 0
    /\ categories = <<>>
    /\ result = NoViews
    /\ Standalone

NextOrder == LoadDirectory

SpecOrder == InitOrder /\ [][NextOrder]_vars

\* The orders in which the directory may list its files.
Listings ==
    {[i \in 1..Len(files) |-> files[p[i]]] : p \in Permutations1(Len(files))}

\* C23: whatever the order in which the directory lists its files, the
\* frame that load_directory sorts by date is the same frame, and so are
\* the files it skips and the outcome of the run: the ledger is a sort by
\* date of that one frame.
C23_ListingOrderIrrelevant ==
    stage # "start" =>
        \A listing \in Listings :
            /\ ConcatFrames(SortedByName(listing)) = ConcatFrames(SortedByName(files))
            /\ warnings = Skipped(SortedByName(listing))
            /\ formats = Detected(SortedByName(listing))
            /\ stage = "ingested" =>
                   /\ IsSortedByDate(ledger)
                   /\ ledger \in SortValuesDate(ConcatFrames(SortedByName(listing)))
                   /\ \A i \in 1..Len(ledger) : ledger[i].source_file \notin
                          {warnings[k] : k \in 1..Len(warnings)}
            /\ stage = "failed" => ConcatFrames(SortedByName(listing)) = <<>>

\* The directory lists b.csv before a.csv; both hold a row of the same
\* date, and the frame that is sorted holds the row of a.csv first.
C23_Witness ==
    /\ stage = "ingested"
    /\ files[1].name = "b.csv"
    /\ files[2].name = "a.csv"
    /\ Len(files[1].rows) = 1
    /\ Len(files[2].rows) = 1
    /\ Len(ledger) = 2
    /\ ledger[1].date = ledger[2].date
    /\ ConcatFrames(SortedByName(files))[1].source_file = "a.csv"
    /\ ConcatFrames(files)[1].source_file = "b.csv"
=============================================================================
